---------------------------- MODULE Spec2Model ----------------------------
(***************************************************************************)
(* A model of the BoardGameGeek spider of board-game-scraper               *)
(* (src/src/board_game_scraper/spiders/bgg.py): the seen-ID frontier       *)
(* (has_seen_bgg_id), the construction of game requests (game_requests),   *)
(* the pagination of a batch (parse_games, extract_page_number).           *)
(*                                                                         *)
(* Python values are tagged records: PyNone, PyInt(n), PyStr(s).  A string *)
(* is a sequence of character codes: 0..9 are the decimal digits, NonDigit *)
(* is any other character; a fixed word of the program ("boardgame") is    *)
(* the TLA+ string.  A dict is a function from its keys.                   *)
(***************************************************************************)
EXTENDS Integers, Sequences, FiniteSets, TLC

(***************************************************************************)
(* Bounds of the model.                                                    *)
(***************************************************************************)
\* BGG IDs proposed one by one are 1..MaxId
MaxId == 2
\* page numbers carried by a request context or declared by a response
MaxPage == 2
\* <comments> elements of a response handed to extract_page_number
MaxItems == 2

(***************************************************************************)
(* Program constants.                                                      *)
(***************************************************************************)
request_page_size == 100
game_request_batch_size == 20

(***************************************************************************)
(* Python values.                                                          *)
(***************************************************************************)
PyNone == [t |-> "none"]
PyInt(n) == [t |-> "int", v |-> n]
PyStr(s) == [t |-> "str", v |-> s]

\* bool(x) of an int or None, as filter(None, ...) and `if x:` use it
Truthy(x) == x.t = "int" /\ x.v # 0

\* a character that is no decimal digit
NonDigit == 10

RECURSIVE DecimalValue(_)
\* int(s, base=10) of a non-empty string of digits
DecimalValue(s) ==
    IF Len(s) = 0 THEN 0
    ELSE 10 * DecimalValue(SubSeq(s, 1, Len(s) - 1)) + s[Len(s)]

RECURSIVE str(_)
\* str(n) of a non-negative int
str(n) ==
    IF n < 10 THEN <<n>> ELSE Append(str(n \div 10), n % 10)

\* the character " "
Space == 13

RECURSIVE strip(_)
\* s without the white space at its ends, which int() ignores
strip(s) ==
    IF s = <<>> THEN s
    ELSE IF Head(s) = Space THEN strip(Tail(s))
    ELSE IF s[Len(s)] = Space THEN strip(SubSeq(s, 1, Len(s) - 1))
    ELSE s

\* int(s) of a string: its value when it is digits between white space
ParsedDigits(s) ==
    IF Len(s) > 0 /\ \A i \in 1..Len(s) : s[i] \in 0..9
    THEN PyInt(DecimalValue(s))
    ELSE PyNone

\* parse_int: an int as it is, a string of digits as its value, anything
\* else (None, the empty string, a string with another character) as None
parse_int(x) ==
    IF x.t = "int" THEN x
    ELSE IF x.t = "str" THEN ParsedDigits(strip(x.v))
    ELSE PyNone

\* dict.get(key), None when the key is missing
Get(d, k) == IF k \in DOMAIN d THEN d[k] ELSE PyNone

\* dict.update
Update(d, e) ==
    [k \in DOMAIN d \cup DOMAIN e |-> IF k \in DOMAIN e THEN e[k] ELSE d[k]]

\* the empty dict
EmptyDict == <<>>

RECURSIVE SelectTruthy(_)
\* tuple(filter(None, xs))
SelectTruthy(xs) ==
    IF xs = <<>> THEN <<>>
    ELSE IF Truthy(Head(xs)) THEN <<Head(xs)>> \o SelectTruthy(Tail(xs))
    ELSE SelectTruthy(Tail(xs))

RECURSIVE AttrValues(_, _)
\* response.xpath("/items/item/comments/@<attr>").getall(): the values of
\* the attribute, in document order, of the elements that carry it
AttrValues(body, attr) ==
    IF body = <<>> THEN <<>>
    ELSE (IF attr \in DOMAIN Head(body).attrs
          THEN <<Head(body).attrs[attr]>> ELSE <<>>)
         \o AttrValues(Tail(body), attr)

\* map(parse_int, xs)
MapParseInt(xs) == [i \in 1..Len(xs) |-> parse_int(xs[i])]

\* max(xs, default=0) of a sequence of ints
MaxOrZero(xs) ==
    IF xs = <<>> THEN 0
    ELSE CHOOSE m \in {xs[i].v : i \in 1..Len(xs)} :
             \A i \in 1..Len(xs) : xs[i].v <= m

\* int(math.ceil(a / b)), b > 0
CeilDiv(a, b) == -((-a) \div b)

Max(a, b) == IF a >= b THEN a ELSE b
(***************************************************************************)
(* extract_page_number                                                     *)
(***************************************************************************)
\* lines 762-776: the first page number a <comments> element declares
PageFromResponse(body) ==
    LET pages_from_response ==
            SelectTruthy(MapParseInt(AttrValues(body, "page")))
    IN  IF pages_from_response # <<>> THEN pages_from_response[1] ELSE PyNone

\* the page resolved with the response's page before the context's
ResolvePage_ResponseFirst(page_from_meta, page_from_response) ==
    IF Truthy(page_from_response) THEN page_from_response.v
    ELSE IF Truthy(page_from_meta) THEN page_from_meta.v
    ELSE 1

\* lines 778-790: the request context's page first, then the response's, then 1
ResolvePage(page_from_meta, page_from_response) ==
    IF Truthy(page_from_meta) THEN page_from_meta.v
    ELSE IF Truthy(page_from_response) THEN page_from_response.v
    ELSE 1

\* the response's max page with the division rounded down
MaxPageFromResponse_Floor(body) ==
    LET total_items ==
            MaxOrZero(SelectTruthy(MapParseInt(AttrValues(body, "totalitems"))))
    IN  IF total_items # 0
        THEN PyInt(total_items \div request_page_size)
        ELSE PyNone

\* lines 793-802: the largest totalitems declared, in pages
MaxPageFromResponse(body) ==
    LET total_items ==
            MaxOrZero(SelectTruthy(MapParseInt(AttrValues(body, "totalitems"))))
    IN  IF total_items # 0
        THEN PyInt(CeilDiv(total_items, request_page_size))
        ELSE PyNone

\* the max page resolved with the context's max page always winning
ReconcileMaxPage_ContextWins(max_page_from_meta, max_page_from_response, page) ==
    IF Truthy(max_page_from_meta) THEN max_page_from_meta.v
    ELSE IF Truthy(max_page_from_response) THEN max_page_from_response.v
    ELSE page

\* lines 804-817: the larger of the context's and the response's max page
ReconcileMaxPage(max_page_from_meta, max_page_from_response, page) ==
    IF Truthy(max_page_from_meta)
    THEN IF Truthy(max_page_from_response)
            /\ max_page_from_meta # max_page_from_response
         THEN Max(max_page_from_meta.v, max_page_from_response.v)
         ELSE max_page_from_meta.v
    ELSE IF Truthy(max_page_from_response) THEN max_page_from_response.v
    ELSE page

\* extract_page_number(response, request_page_size) -> (page, max_page)
extract_page_number(meta, body) ==
    LET page_from_meta == parse_int(Get(meta, "page"))
        page == ResolvePage(page_from_meta, PageFromResponse(body))
        max_page_from_meta == parse_int(Get(meta, "max_page"))
    IN  [page |-> page,
         max_page |-> ReconcileMaxPage(max_page_from_meta,
                                       MaxPageFromResponse(body), page)]

(***************************************************************************)
(* The responses and request contexts handed to extract_page_number.       *)
(***************************************************************************)
\* the strings a page attribute holds: a page number, or no number
PageStrings == {PyStr(str(p)) : p \in 0..MaxPage} \cup {PyStr(<<NonDigit>>)}

\* the totals a totalitems attribute declares: none, a full page, two pages
\* and a half, four and a half
DeclaredTotals == {0, 100, 250, 450}

\* the max pages a request context carries: below, between and at the max
\* pages the totals give
ContextMaxPages == {1, 3, 5}

\* the strings a totalitems attribute holds
TotalStrings == {PyStr(str(n)) : n \in DeclaredTotals}

\* the attributes of one <comments> element: each present or not
CommentsAttrs(pages, totals) ==
    {EmptyDict}
    \cup {[page |-> p] : p \in pages}
    \cup {[totalitems |-> n] : n \in totals}
    \cup {[page |-> p, totalitems |-> n] : p \in pages, n \in totals}

\* one /items/item: the attributes of its <comments> element and the number
\* of <comment> elements in it
Items(pages, totals, maxComments) ==
    {[attrs |-> a, comment |-> c] :
         a \in CommentsAttrs(pages, totals), c \in 0..maxComments}

\* the responses of at most n items
Bodies(n, items) == UNION {[1..k -> items] : k \in 0..n}

\* the responses handed to extract_page_number
PageBodies == Bodies(MaxItems, Items(PageStrings, TotalStrings, 0))

\* the request contexts: page and max_page each carried or not
Metas ==
    {EmptyDict}
    \cup {[page |-> PyInt(p)] : p \in 1..MaxPage}
    \cup {[max_page |-> PyInt(m)] : m \in ContextMaxPages}
    \cup {[page |-> PyInt(p), max_page |-> PyInt(m)] :
              p \in 1..MaxPage, m \in ContextMaxPages}

(***************************************************************************)
(* The seen-ID frontier and the game requests.                             *)
(***************************************************************************)
PyDict(d) == [t |-> "dict", v |-> d]

\* has_seen_bgg_id without the insertion into bgg_ids_seen
has_seen_bgg_id_NoAdd(st, bgg_id) ==
    IF st.t # "dict"
    THEN [state |-> st, seen |-> FALSE, warned |-> TRUE]
    ELSE LET d == IF "bgg_ids_seen" \in DOMAIN st.v
                  THEN st.v
                  ELSE Update(st.v, [bgg_ids_seen |-> {}])
         IN  [state |-> PyDict(d),
              seen |-> bgg_id \in d.bgg_ids_seen,
              warned |-> FALSE]

\* has_seen_bgg_id returning True without spider state
has_seen_bgg_id_SeenWithoutState(st, bgg_id) ==
    IF st.t # "dict"
    THEN [state |-> st, seen |-> TRUE, warned |-> TRUE]
    ELSE LET d == IF "bgg_ids_seen" \in DOMAIN st.v
                  THEN st.v
                  ELSE Update(st.v, [bgg_ids_seen |-> {}])
             bgg_ids_seen == d.bgg_ids_seen
         IN  [state |-> PyDict([d EXCEPT !.bgg_ids_seen = bgg_ids_seen \cup {bgg_id}]),
              seen |-> bgg_id \in bgg_ids_seen,
              warned |-> FALSE]

\* has_seen_bgg_id testing the membership after the insertion
has_seen_bgg_id_TestAfterAdd(st, bgg_id) ==
    IF st.t # "dict"
    THEN [state |-> st, seen |-> FALSE, warned |-> TRUE]
    ELSE LET d == IF "bgg_ids_seen" \in DOMAIN st.v
                  THEN st.v
                  ELSE Update(st.v, [bgg_ids_seen |-> {}])
             bgg_ids_seen == d.bgg_ids_seen \cup {bgg_id}
         IN  [state |-> PyDict([d EXCEPT !.bgg_ids_seen = bgg_ids_seen]),
              seen |-> bgg_id \in bgg_ids_seen,
              warned |-> FALSE]

\* has_seen_bgg_id on the spider's state attribute st: the attribute after
\* the call, the value returned, whether "No spider state found" was warned
has_seen_bgg_id(st, bgg_id) ==
    IF st.t # "dict"
    THEN [state |-> st, seen |-> FALSE, warned |-> TRUE]
    ELSE LET d == IF "bgg_ids_seen" \in DOMAIN st.v
                  THEN st.v
                  ELSE Update(st.v, [bgg_ids_seen |-> {}])
             bgg_ids_seen == d.bgg_ids_seen
         IN  [state |-> PyDict([d EXCEPT !.bgg_ids_seen = bgg_ids_seen \cup {bgg_id}]),
              seen |-> bgg_id \in bgg_ids_seen,
              warned |-> FALSE]

RECURSIVE sorted(_)
\* sorted(S) of a set of ints
sorted(S) ==
    IF S = {} THEN <<>>
    ELSE LET m == CHOOSE x \in S : \A y \in S : x <= y
         IN  <<m>> \o sorted(S \ {m})

\* one chunk with all of xs, whatever its length
chunked_Whole(xs, n) == IF Len(xs) = 0 THEN <<>> ELSE <<xs>>

RECURSIVE chunked(_, _)
\* more_itertools.chunked(xs, n)
chunked(xs, n) ==
    IF Len(xs) = 0 THEN <<>>
    ELSE IF Len(xs) <= n THEN <<xs>>
    ELSE <<SubSeq(xs, 1, n)>> \o chunked(SubSeq(xs, n + 1, Len(xs)), n)

RECURSIVE FilterUnseen(_, _)
\* line 230: [bgg_id for bgg_id in bgg_ids if not self.has_seen_bgg_id(bgg_id)]
\* over the IDs in the order ids; the frozenset holds each ID once
FilterUnseen(st, ids) ==
    IF ids = <<>>
    THEN [state |-> st, kept |-> {}, returns |-> <<>>, warnings |-> 0]
    ELSE LET r == has_seen_bgg_id(st, Head(ids))
             rest == FilterUnseen(r.state, Tail(ids))
         IN  [state |-> rest.state,
              kept |-> (IF r.seen THEN {} ELSE {Head(ids)}) \cup rest.kept,
              returns |-> <<[bgg_id |-> Head(ids), seen |-> r.seen]>> \o rest.returns,
              warnings |-> (IF r.warned THEN 1 ELSE 0) + rest.warnings]

\* the character "," of ",".join(...)
Comma == 11

RECURSIVE JoinIds(_)
\* ",".join(map(str, chunk))
JoinIds(chunk) ==
    IF chunk = <<>> THEN <<>>
    ELSE IF Len(chunk) = 1 THEN str(chunk[1])
    ELSE str(chunk[1]) \o <<Comma>> \o JoinIds(Tail(chunk))

\* one keyword argument of a call; the keyword arguments of a call are a
\* sequence, in the order they were passed (the order of kwargs.items())
Keyword(name, value) == [name |-> name, value |-> value]

\* the parameter names of the API, each with its place in the order of
\* str.__lt__
KeyOrder ==
    [id |-> 1, name |-> 2, page |-> 3, pagesize |-> 4, ratingcomments |-> 5,
     stats |-> 6, type |-> 7, username |-> 8, videos |-> 9]

\* k1 < k2 for two parameter names
KeyLess(k1, k2) == KeyOrder[k1] < KeyOrder[k2]

\* api_url without sorted()
api_url_Unsorted(action, kwargs) ==
    [action |-> action,
     query |-> SelectSeq(kwargs, LAMBDA p : p.name # "" /\ p.value.t # "none")]

\* api_url(action, **kwargs): the action and, as urlencode writes them, the
\* parameters with a name and a value that is not None, sorted
api_url(action, kwargs) ==
    [action |-> action,
     query |-> SortSeq(SelectSeq(kwargs,
                           LAMBDA p : p.name # "" /\ p.value.t # "none"),
                       LAMBDA p, q : KeyLess(p.name, q.name))]

\* the keyword parameters of scrapy.http.Request
RequestKeywords ==
    {"url", "callback", "method", "headers", "body", "cookies", "meta",
     "encoding", "priority", "dont_filter", "errback", "flags", "cb_kwargs"}

\* Request(**kw) is built when every keyword is one of its parameters, and
\* raises TypeError (unexpected keyword argument) otherwise
RequestAccepts(kw) == DOMAIN kw \subseteq RequestKeywords

\* lines 236-260: the keyword arguments of Request for one chunk
RequestCall(chunk, page, priority, kwargs) ==
    LET url == api_url("thing",
                   <<Keyword("id", PyStr(JoinIds(chunk))),
                     Keyword("type", PyStr("boardgame")),
                     Keyword("videos", PyStr(str(1))),
                     Keyword("stats", IF page = 1 THEN PyStr(str(1)) ELSE PyNone),
                     Keyword("ratingcomments",
                             IF page = 1 THEN PyStr(str(1)) ELSE PyNone),
                     Keyword("page", PyStr(str(page))),
                     Keyword("pagesize", PyStr(str(request_page_size)))>>)
        kwargs_copy ==
            Update(kwargs,
                   [meta |-> Update(IF "meta" \in DOMAIN kwargs
                                    THEN kwargs.meta ELSE EmptyDict,
                                    [bgg_ids |-> chunk, page |-> PyInt(page)])])
    IN  Update([url |-> url, callback |-> "parse_games", priority |-> priority],
               kwargs_copy)

\* game_requests(bgg_ids=, page=, priority=, **kwargs) on the spider state st:
\* the state after it, the has_seen_bgg_id calls it made, the Request calls
\* it made, the requests it yielded, and whether it raised
game_requests(st, bgg_ids, page, priority, kwargs) ==
    LET checked == IF page = 1
                   THEN FilterUnseen(st, sorted(bgg_ids))
                   ELSE [state |-> st, kept |-> bgg_ids, returns |-> <<>>,
                         warnings |-> 0]
        chunks == chunked(sorted(checked.kept), game_request_batch_size)
        calls == [i \in 1..Len(chunks) |->
                      RequestCall(chunks[i], page, priority, kwargs)]
        bad == {i \in 1..Len(calls) : ~RequestAccepts(calls[i])}
        made == IF bad = {} THEN Len(calls)
                ELSE CHOOSE i \in bad : \A j \in bad : i <= j
    IN  [state |-> checked.state,
         returns |-> checked.returns,
         warnings |-> checked.warnings,
         calls |-> SubSeq(calls, 1, made),
         requests |-> SubSeq(calls, 1, IF bad = {} THEN made ELSE made - 1),
         raised |-> bad # {}]

(***************************************************************************)
(* parse_games: the pagination of a batch.                                 *)
(***************************************************************************)
\* response.xpath("/items/item/comments/comment") is not empty
HasComments(body) == \E i \in 1..Len(body) : body[i].comment > 0

\* the condition of a continuation without the check for comments
ShouldContinue_IgnoreComments(ratings, page, max_page, body) ==
    ratings /\ page < max_page

\* the condition of a continuation that also continues from the last page
ShouldContinue_PastLastPage(ratings, page, max_page, body) ==
    ratings /\ page <= max_page /\ HasComments(body)

\* lines 345-349: scrape the next page if the last one is not reached yet
\* and this response contains any comments
ShouldContinue(ratings, page, max_page, body) ==
    ratings /\ page < max_page /\ HasComments(body)

\* lines 350-355: the call of game_requests for the next page, when the
\* response is continued, and what it yields
Continuation(st, page, max_page, continued, next) ==
    [page |-> page,
     max_page |-> max_page,
     continued |-> continued,
     state |-> IF continued THEN next.state ELSE st,
     returns |-> IF continued THEN next.returns ELSE <<>>,
     calls |-> IF continued THEN next.calls ELSE <<>>,
     requests |-> IF continued THEN next.requests ELSE <<>>,
     raised |-> continued /\ next.raised]

\* the priority of the request for the page after page, without the step
\* below the page's own priority
NextPriority_SamePriority(page) == -page

\* line 353: priority=-page - 1 of the request for the page after page
NextPriority(page) == -page - 1

\* the continuation called with the priority -page of the page parsed
Paginate_SamePriority(st, ratings, bgg_ids, body, pm) ==
    Continuation(st, pm.page, pm.max_page,
                 ShouldContinue(ratings, pm.page, pm.max_page, body),
                 game_requests(st, bgg_ids, pm.page + 1, -pm.page,
                               [max_page |-> PyInt(pm.max_page)]))

\* lines 340-349: the pages resolved, the IDs of the batch, the decision
Paginate(st, ratings, bgg_ids, body, pm) ==
    Continuation(st, pm.page, pm.max_page,
                 ShouldContinue(ratings, pm.page, pm.max_page, body),
                 game_requests(st, bgg_ids, pm.page + 1, NextPriority(pm.page),
                               [max_page |-> PyInt(pm.max_page)]))

\* lines 340-355 of parse_games on the response (meta, body): the pages it
\* resolves, the call of game_requests for the next page and what it yields
parse_games(st, ratings, meta, body) ==
    Paginate(st, ratings,
             IF "bgg_ids" \in DOMAIN meta
             THEN {meta.bgg_ids[i] : i \in 1..Len(meta.bgg_ids)}
             ELSE {},
             body,
             extract_page_number(meta, body))

\* lines 376-397 yielding for a <comment> without a user name as well
CommentYields_Unnamed(collections, users, bgg_id, user_name) ==
    (IF collections
     THEN <<[kind |-> "collection_request", bgg_id |-> bgg_id,
             user_name |-> user_name]>>
     ELSE <<[kind |-> "CollectionItem", bgg_id |-> bgg_id,
             user_name |-> user_name]>>)
    \o (IF users
        THEN <<[kind |-> "user_request", bgg_id |-> bgg_id,
                user_name |-> user_name]>>
        ELSE <<>>)

\* lines 376-397: what one <comment> of the game bgg_id yields, user_name
\* being its @username: nothing when extract_collection_item finds no user
\* name (lines 697-703) and returns None
CommentYields(collections, users, bgg_id, user_name) ==
    IF user_name.t # "str" \/ user_name.v = <<>> THEN <<>>
    ELSE (IF collections
          THEN <<[kind |-> "collection_request", bgg_id |-> bgg_id,
                  user_name |-> user_name]>>
          ELSE <<[kind |-> "CollectionItem", bgg_id |-> bgg_id,
                  user_name |-> user_name]>>)
         \o (IF users
             THEN <<[kind |-> "user_request", bgg_id |-> bgg_id,
                     user_name |-> user_name]>>
             ELSE <<>>)

RECURSIVE CommentsYield(_, _, _, _)
\* lines 376-397: what the loop over the <comment> elements yields
CommentsYield(collections, users, bgg_id, names) ==
    IF names = <<>> THEN <<>>
    ELSE CommentYields(collections, users, bgg_id, Head(names))
         \o CommentsYield(collections, users, bgg_id, Tail(names))

\* the GameItem of every game, whatever the page
GameYields_EveryPage(ratings, collections, users, page, game) ==
    LET bgg_id == parse_int(game.id)
    IN  IF game.type # "boardgame" \/ ~Truthy(bgg_id) THEN <<>>
        ELSE <<[kind |-> "GameItem", bgg_id |-> bgg_id.v]>>
             \o (IF ratings
                 THEN CommentsYield(collections, users, bgg_id.v, game.users)
                 ELSE <<>>)

\* lines 358-397: what one /items/item yields
GameYields(ratings, collections, users, page, game) ==
    LET bgg_id == parse_int(game.id)
    IN  IF game.type # "boardgame" \/ ~Truthy(bgg_id) THEN <<>>
        ELSE (IF page = 1
              THEN <<[kind |-> "GameItem", bgg_id |-> bgg_id.v]>>
              ELSE <<>>)
             \o (IF ratings
                 THEN CommentsYield(collections, users, bgg_id.v, game.users)
                 ELSE <<>>)

RECURSIVE ItemsOf(_, _, _, _, _)
\* lines 357-397: what the loop over /items/item yields
ItemsOf(ratings, collections, users, page, body) ==
    IF body = <<>> THEN <<>>
    ELSE GameYields(ratings, collections, users, page, Head(body))
         \o ItemsOf(ratings, collections, users, page, Tail(body))

(***************************************************************************)
(* The spider.                                                             *)
(***************************************************************************)
\* discovery calls (sitemap and collection responses) of one run
MaxCalls == 2
\* items of a response handed to parse_games
MaxCrawlItems == 1
\* <comment> elements of one item
MaxComments == 1

\* totalitems declared by a response to a game request: multiples of a page
\* and a half, up to this many
MaxCrawlTotals == 2

\* one item of the response to the game request for a page: a board game
\* without a <comments> element, or with one that declares the page asked
\* for and the total of zero to MaxCrawlTotals pages and a half; an item of
\* another type; a board game without an id.  Each <comment> names its user.
CrawlItems(page) ==
    {[attrs |-> EmptyDict, comment |-> 0, users |-> <<>>, type |-> "boardgame",
      id |-> PyStr(str(1))]}
    \cup {[attrs |-> [page |-> PyStr(str(page)),
                      totalitems |-> PyStr(str(((3 * request_page_size) \div 2) * k))],
           comment |-> c, users |-> [i \in 1..c |-> PyStr(<<NonDigit>>)],
           type |-> "boardgame", id |-> PyStr(str(1))] :
              k \in 0..MaxCrawlTotals, c \in 0..MaxComments}
    \cup {[attrs |-> EmptyDict, comment |-> 0, users |-> <<>>,
           type |-> "boardgameexpansion", id |-> PyStr(str(1))],
          [attrs |-> EmptyDict, comment |-> 0, users |-> <<>>,
           type |-> "boardgame", id |-> PyNone]}

\* the @username of a <comment>: missing, empty, or one of two names
UserNames == {PyNone, PyStr(<<>>), PyStr(<<NonDigit>>), PyStr(<<1>>)}

\* the <comment> elements of one item, by their @username: up to two
UserLists ==
    {<<>>} \cup {<<a>> : a \in UserNames} \cup {<<a, b>> : a, b \in UserNames}

\* one board game of the response to the game request for a page, with its
\* <comment> elements, some without a user name; its <comments> element
\* declares the page and one page and a half of entries, or nothing
CommentItems(page) ==
    {[attrs |-> a, comment |-> Len(u), users |-> u, type |-> "boardgame",
      id |-> PyStr(str(1))] :
         a \in {EmptyDict,
                [page |-> PyStr(str(page)),
                 totalitems |-> PyStr(str((3 * request_page_size) \div 2))]},
         u \in UserLists}

\* the responses of up to two such games
CommentBodies(page) == Bodies(2, CommentItems(page))

\* the responses to the game request for a page
CrawlBodies(page) == Bodies(MaxCrawlItems, CrawlItems(page))

\* the BGG IDs: the small ones, and enough to fill more than one batch
AllIds == 1..Max(MaxId, game_request_batch_size + 2)

\* the ID sets the seed files propose
Proposals == SUBSET (1..MaxId)

\* the ID sets a response proposes: those, or two IDs more than a batch
\* holds
Listings == Proposals \cup {1..(game_request_batch_size + 2)}

VARIABLES
    \* the spider's state attribute: None, not a dict, or the dict
    state,
    \* the flags of the run
    scrape_ratings, scrape_collections, scrape_users,
    \* start_requests has asked for the games of the seed files
    started,
    \* discovery responses still to come
    budget,
    \* the requests yielded and not yet answered
    queue,
    \* the IDs passed to has_seen_bgg_id so far
    passed,
    \* per ID, the page-1 game requests yielded so far that hold it
    fetches,
    \* the last handler that ran, with what it did
    last,
    \* the call of extract_page_number under test: its arguments, its result
    epn,
    \* the call of player_count_votes or parse_poll on one game: its arguments
    \* and, once called, what it returned
    polled,
    \* the call of a function of utils/ids.py or of api_url: its arguments
    \* and, once called, what it returned
    applied

vars == <<state, scrape_ratings, scrape_collections, scrape_users, started,
          budget, queue, passed, fetches, last, epn, polled, applied>>

spider == <<state, scrape_ratings, scrape_collections, scrape_users, started,
            budget, queue, passed, fetches, last>>

NoCall == [called |-> FALSE]

\* the state attribute at the start of a run: missing (None), not a dict,
\* or the empty dict the SpiderState extension sets
InitialStates == {PyNone, PyStr(<<>>), PyDict(EmptyDict)}

\* __init__ keeping the flags as passed
Construct_AsPassed(ratings, collections, users) ==
    /\ scrape_ratings = ratings
    /\ scrape_collections = collections
    /\ scrape_users = users

\* __init__, lines 96-115, on the three flags passed in
Construct(ratings, collections, users) ==
    /\ scrape_ratings = ratings
    /\ scrape_collections = (collections /\ ratings)
    /\ scrape_users = (users /\ ratings)

InitSpider ==
    /\ state \in InitialStates
    /\ \E r \in BOOLEAN, c \in BOOLEAN, u \in BOOLEAN : Construct(r, c, u)
    /\ started = FALSE
    /\ queue = {}
    /\ passed = {}
    /\ fetches = [i \in AllIds |-> 0]
    /\ last = [op |-> "__init__"]

Init ==
    /\ InitSpider
    /\ budget = MaxCalls
    /\ epn = NoCall
    /\ polled = NoCall
    /\ applied = NoCall

\* the frontier: the IDs the state attribute holds as seen
Frontier(st) ==
    IF st.t = "dict" /\ "bgg_ids_seen" \in DOMAIN st.v
    THEN st.v.bgg_ids_seen ELSE {}

\* the IDs a request asks for
BatchOf(request) ==
    {request.meta.bgg_ids[j] : j \in 1..Len(request.meta.bgg_ids)}

\* the spider after a discovery path called game_requests for page 1, r
\* being what the call did
Discovered(op, bgg_ids, r) ==
    /\ state' = r.state
    /\ queue' = queue \cup {r.requests[i] : i \in 1..Len(r.requests)}
    /\ passed' = passed \cup {r.returns[i].bgg_id : i \in 1..Len(r.returns)}
    /\ fetches' = [i \in AllIds |->
           fetches[i] + Cardinality({k \in 1..Len(r.requests) :
                                         i \in BatchOf(r.requests[k])})]
    /\ last' = [op |-> op, bgg_ids |-> bgg_ids, before |-> Frontier(state),
                passed_before |-> passed, returns |-> r.returns,
                warnings |-> r.warnings, requests |-> r.requests,
                raised |-> r.raised]
    /\ UNCHANGED <<scrape_ratings, scrape_collections, scrape_users, epn,
                   polled, applied>>

\* a discovery path calls game_requests for page 1
Discover(op, bgg_ids, priority) ==
    \E r \in {game_requests(state, bgg_ids, 1, priority, EmptyDict)} :
        Discovered(op, bgg_ids, r)

\* start_requests: game_requests_from_files, lines 137-150
GameRequestsFromFiles ==
    /\ ~started
    /\ started' = TRUE
    /\ UNCHANGED budget
    /\ \E bgg_ids \in Proposals :
           Discover("game_requests_from_files", bgg_ids, 1)

\* _parse_sitemap, lines 200-217: the sitemap requests follow the seed files
ParseSitemap ==
    /\ started
    /\ budget > 0
    /\ budget' = budget - 1
    /\ UNCHANGED started
    /\ \E bgg_ids \in Listings : Discover("_parse_sitemap", bgg_ids, -1)

\* parse_collection, lines 413-419: collections are requested only when
\* scrape_collections is set
ParseCollection ==
    /\ scrape_collections
    /\ budget > 0
    /\ budget' = budget - 1
    /\ UNCHANGED started
    /\ \E bgg_ids \in Listings : Discover("parse_collection", bgg_ids, -1)

\* the spider after parse_games ran on the response to request, r being
\* what the handler did
Parsed(request, body, r) ==
    /\ state' = r.state
    /\ queue' = (queue \ {request}) \cup {r.requests[i] : i \in 1..Len(r.requests)}
    /\ last' = [op |-> "parse_games", request |-> request, body |-> body,
                before |-> Frontier(state),
                page |-> r.page, max_page |-> r.max_page,
                continued |-> r.continued, returns |-> r.returns,
                calls |-> r.calls, requests |-> r.requests,
                raised |-> r.raised,
                yields |-> IF r.raised THEN <<>>
                           ELSE ItemsOf(scrape_ratings, scrape_collections,
                                        scrape_users, r.page, body)]
    /\ UNCHANGED <<scrape_ratings, scrape_collections, scrape_users,
                   started, budget, passed, fetches, epn, polled, applied>>

\* parse_games on the response to a game request
ParseGames ==
    \E request \in queue :
      \E body \in CrawlBodies(request.meta.page.v) :
        \E r \in {parse_games(state, scrape_ratings, request.meta, body)} :
            Parsed(request, body, r)

\* the discovery paths of one run
Next == GameRequestsFromFiles \/ ParseSitemap \/ ParseCollection

Spec == Init /\ [][Next]_vars

\* one run with its responses: the games of the seed files are requested
\* and the responses to the game requests are parsed
InitChain ==
    /\ InitSpider
    /\ budget = 0
    /\ epn = NoCall
    /\ polled = NoCall
    /\ applied = NoCall

NextChain == GameRequestsFromFiles \/ ParseGames

SpecChain == InitChain /\ [][NextChain]_vars

\* extract_page_number on every request context and response
InitPages ==
    /\ state = PyDict(EmptyDict)
    /\ Construct(FALSE, FALSE, FALSE)
    /\ started = FALSE
    /\ budget = 0
    /\ queue = {}
    /\ passed = {}
    /\ fetches = [i \in AllIds |-> 0]
    /\ last = [op |-> "__init__"]
    /\ \E m \in Metas, b \in PageBodies :
           epn = [called |-> FALSE, meta |-> m, body |-> b]
    /\ polled = NoCall
    /\ applied = NoCall

ExtractPageNumber ==
    /\ ~epn.called
    /\ epn' = [called |-> TRUE, meta |-> epn.meta, body |-> epn.body,
               result |-> extract_page_number(epn.meta, epn.body)]
    /\ UNCHANGED <<spider, polled, applied>>

NextPages == ExtractPageNumber

SpecPages == InitPages /\ [][NextPages]_vars

(***************************************************************************)
(* The poll aggregator: player_count_votes, filter_votes, parse_poll.      *)
(* An element is the record of the attributes and children the code reads; *)
(* an attribute is PyStr(s), or PyNone when it (or its element) is missing.*)
(***************************************************************************)
\* the character "+" of a numplayers attribute such as "4+"
Plus == 12

\* normalize_space(item): "" for None; the strings of the model hold no
\* white space
normalize_space(item) == IF item.t = "str" THEN item.v ELSE <<>>

RECURSIVE DropNonDigits(_)
\* the match of \D* in DIGITS_REGEX: string without its leading non-digits
DropNonDigits(string) ==
    IF string = <<>> \/ Head(string) \in 0..9 THEN string
    ELSE DropNonDigits(Tail(string))

RECURSIVE TakeDigits(_)
\* the match of (\d+) in DIGITS_REGEX: the leading digits of string
TakeDigits(string) ==
    IF string = <<>> \/ Head(string) \notin 0..9 THEN <<>>
    ELSE <<Head(string)>> \o TakeDigits(Tail(string))

\* parse_int_from_elem counting a missing or malformed value as 1
parse_int_from_elem_DefaultOne(value, lenient) ==
    LET string == normalize_space(value)
        result == parse_int(PyStr(string))
        group == TakeDigits(DropNonDigits(string))
        found == IF result.t = "none" /\ lenient
                 THEN (IF group # <<>> THEN parse_int(PyStr(group)) ELSE PyNone)
                 ELSE result
    IN  IF string = <<>> THEN 1
        ELSE IF found.t # "none" THEN found.v
        ELSE 1

\* parse_int_from_elem(element, xpath, default=0, lenient=) where value is
\* element.xpath(xpath).get()
parse_int_from_elem(value, lenient) ==
    LET string == normalize_space(value)
        result == parse_int(PyStr(string))
        group == TakeDigits(DropNonDigits(string))
        found == IF result.t = "none" /\ lenient
                 THEN (IF group # <<>> THEN parse_int(PyStr(group)) ELSE PyNone)
                 ELSE result
    IN  IF string = <<>> THEN 0
        ELSE IF found.t # "none" THEN found.v
        ELSE 0

\* lines 880-888: the player count of one <results> element, 0 when the
\* element is skipped
PlayersOf(numplayers) ==
    LET players == parse_int(PyStr(numplayers))
    IN  IF ~Truthy(players) /\ numplayers # <<>>
           /\ numplayers[Len(numplayers)] = Plus
        THEN LET less == parse_int(PyStr(SubSeq(numplayers, 1, Len(numplayers) - 1)))
             IN  (IF Truthy(less) THEN less.v ELSE -1) + 1
        ELSE IF Truthy(players) THEN players.v
        ELSE 0

RECURSIVE parse_player_count(_)
\* parse_player_count(poll) over the <results> elements of the poll: the
\* tuples (players, votes_best, votes_rec, votes_not)
parse_player_count(results) ==
    IF results = <<>> THEN <<>>
    ELSE LET result == Head(results)
             players == PlayersOf(normalize_space(result.numplayers))
         IN  (IF players = 0 THEN <<>>
              ELSE <<<<players,
                       parse_int_from_elem(result.best, FALSE),
                       parse_int_from_elem(result.rec, FALSE),
                       parse_int_from_elem(result.notrec, FALSE)>>>>)
             \o parse_player_count(Tail(results))

RECURSIVE TupleLess(_, _)
\* a < b for two tuples of ints
TupleLess(a, b) ==
    IF a = <<>> THEN b # <<>>
    ELSE IF b = <<>> THEN FALSE
    ELSE IF Head(a) # Head(b) THEN Head(a) < Head(b)
    ELSE TupleLess(Tail(a), Tail(b))

RECURSIVE Insert(_, _)
\* the sorted sequence xs with the tuple x
Insert(x, xs) ==
    IF xs = <<>> THEN <<x>>
    ELSE IF TupleLess(x, Head(xs)) THEN <<x>> \o xs
    ELSE <<Head(xs)>> \o Insert(x, Tail(xs))

RECURSIVE SortTuples(_)
\* sorted(xs) of a sequence of tuples
SortTuples(xs) ==
    IF xs = <<>> THEN <<>> ELSE Insert(Head(xs), SortTuples(Tail(xs)))

RECURSIVE MinOr(_, _)
\* min(xs, default=default)
MinOr(xs, default) ==
    IF xs = <<>> THEN default
    ELSE IF Len(xs) = 1 THEN xs[1]
    ELSE LET m == MinOr(Tail(xs), default)
         IN  IF xs[1] <= m THEN xs[1] ELSE m

RECURSIVE MaxOr(_, _)
\* max(xs, default=default)
MaxOr(xs, default) ==
    IF xs = <<>> THEN default
    ELSE IF Len(xs) = 1 THEN xs[1]
    ELSE LET m == MaxOr(Tail(xs), default)
         IN  IF xs[1] >= m THEN xs[1] ELSE m

\* filter_votes without the floor of line 637
filter_votes_NoFloor(min_votes, votes_best, votes_rec, votes_not, best) ==
    IF best THEN votes_best > votes_not + votes_rec
    ELSE votes_best + votes_rec > votes_not

\* filter_votes where a tie passes
filter_votes_TiesCount(min_votes, votes_best, votes_rec, votes_not, best) ==
    IF 2 * (votes_best + votes_rec + votes_not) < min_votes THEN FALSE
    ELSE IF best THEN votes_best >= votes_not + votes_rec
    ELSE votes_best + votes_rec >= votes_not

\* filter_votes with the floor of line 637 for best=False only
filter_votes_FloorForRecommended(min_votes, votes_best, votes_rec, votes_not, best) ==
    IF ~best /\ 2 * (votes_best + votes_rec + votes_not) < min_votes THEN FALSE
    ELSE LET votes_true == IF best THEN votes_best ELSE votes_best + votes_rec
             votes_false == IF best THEN votes_not + votes_rec ELSE votes_not
         IN  votes_true > votes_false

\* filter_votes(votes_best, votes_rec, votes_not, best=) with self.min_votes;
\* total < min_votes / 2 is 2 * total < min_votes
filter_votes(min_votes, votes_best, votes_rec, votes_not, best) ==
    IF 2 * (votes_best + votes_rec + votes_not) < min_votes THEN FALSE
    ELSE LET votes_true == IF best THEN votes_best ELSE votes_best + votes_rec
             votes_false == IF best THEN votes_not + votes_rec ELSE votes_not
         IN  votes_true > votes_false

RECURSIVE PlayersPassing(_, _, _)
\* [vote[0] for vote in votes if self.filter_votes(*vote[1:], best=best)]
PlayersPassing(min_votes, votes, best) ==
    IF votes = <<>> THEN <<>>
    ELSE (IF filter_votes(min_votes, votes[1][2], votes[1][3], votes[1][4], best)
          THEN <<votes[1][1]>> ELSE <<>>)
         \o PlayersPassing(min_votes, Tail(votes), best)

\* the summary with the best pair taken from the recommended player counts
Summary_BestFromRecommended(min_players, max_players, recommended, best) ==
    [value |-> <<MinOr(recommended, min_players), MaxOr(recommended, max_players),
                 MinOr(recommended, min_players), MaxOr(recommended, max_players)>>,
     aggregated |-> TRUE,
     recommended |-> recommended,
     best |-> best]

\* lines 615-627: the summary of the votes
Summary(min_players, max_players, recommended, best) ==
    [value |-> <<MinOr(recommended, min_players), MaxOr(recommended, max_players),
                 MinOr(best, min_players), MaxOr(best, max_players)>>,
     aggregated |-> TRUE,
     recommended |-> recommended,
     best |-> best]

\* lines 615-627 on the sorted votes
Aggregate(min_votes, min_players, max_players, votes) ==
    Summary(min_players, max_players,
            PlayersPassing(min_votes, votes, FALSE),
            PlayersPassing(min_votes, votes, TRUE))

\* line 612 without the comparison of the total votes with min_votes
BelowThreshold_PollMissingOnly(min_votes, poll) == poll.t = "none"

\* line 612: the poll is missing or its total votes are below min_votes
BelowThreshold(min_votes, poll) ==
    poll.t = "none" \/ parse_int_from_elem(poll.totalvotes, FALSE) < min_votes

\* lines 606-613 and the call of lines 615-627
Aggregated(min_votes, min_players, max_players, poll) ==
    IF BelowThreshold(min_votes, poll)
    THEN [value |-> <<min_players, max_players, min_players, max_players>>,
          aggregated |-> FALSE, recommended |-> <<>>, best |-> <<>>]
    ELSE Aggregate(min_votes, min_players, max_players,
                   SortTuples(parse_player_count(poll.results)))

\* player_count_votes(game) with self.min_votes: the tuple returned, and
\* the lists recommended and best when they were computed
player_count_votes(min_votes, game) ==
    Aggregated(min_votes,
               parse_int_from_elem(game.minplayers, FALSE),
               parse_int_from_elem(game.maxplayers, FALSE),
               game.poll)

RECURSIVE parse_votes_Unweighted(_, _, _)
\* parse_votes yielding each value with a vote once
parse_votes_Unweighted(results, i, enum) ==
    IF i > Len(results) THEN <<>>
    ELSE LET value == IF enum THEN i
                      ELSE parse_int_from_elem(results[i].value, TRUE)
             numvotes == parse_int_from_elem(results[i].numvotes, FALSE)
         IN  (IF numvotes > 0 THEN <<value>> ELSE <<>>)
             \o parse_votes_Unweighted(results, i + 1, enum)

RECURSIVE parse_votes(_, _, _)
\* parse_votes(poll, attr, enum=) over the <result> elements from the i-th
\* on: each value once per vote
parse_votes(results, i, enum) ==
    IF i > Len(results) THEN <<>>
    ELSE LET value == IF enum THEN i
                      ELSE parse_int_from_elem(results[i].value, TRUE)
             numvotes == parse_int_from_elem(results[i].numvotes, FALSE)
         IN  [k \in 1..numvotes |-> value] \o parse_votes(results, i + 1, enum)

RECURSIVE InsertInt(_, _)
\* the sorted sequence xs with the int x
InsertInt(x, xs) ==
    IF xs = <<>> THEN <<x>>
    ELSE IF x < Head(xs) THEN <<x>> \o xs
    ELSE <<Head(xs)>> \o InsertInt(x, Tail(xs))

RECURSIVE SortInts(_)
\* sorted(data) of a sequence of ints
SortInts(data) ==
    IF data = <<>> THEN <<>> ELSE InsertInt(Head(data), SortInts(Tail(data)))

\* a float as a fraction
Fraction(num, den) == [num |-> num, den |-> den]

\* statistics.median_grouped(data) of a non-empty sorted data, interval 1:
\* L + (n / 2 - cf) / f with x = data[n // 2], L = x - 1/2, cf the values
\* below x and f the values equal to x
MedianOfSorted(data, n, x) ==
    LET cf == Cardinality({i \in 1..n : data[i] < x})
        f == Cardinality({i \in 1..n : data[i] = x})
    IN  Fraction((2 * x - 1) * f + n - 2 * cf, 2 * f)

\* statistics.median_grouped, raising StatisticsError on no data
median_grouped(data) ==
    IF data = <<>> THEN [raised |-> TRUE]
    ELSE [raised |-> FALSE,
          value |-> MedianOfSorted(SortInts(data), Len(data),
                                   SortInts(data)[(Len(data) \div 2) + 1])]

\* lines 665-670: the result of func, the default when it raised
FuncOrDefault(r) ==
    IF r.raised THEN [value |-> Fraction(0, 1), logged |-> TRUE]
    ELSE [value |-> r.value, logged |-> FALSE]

\* parse_poll(game, name, attr, enum=, func=statistics.median_grouped,
\* default=0.0) with self.min_votes, poll being the first poll of that name
parse_poll(min_votes, poll, enum) ==
    IF BelowThreshold(min_votes, poll)
    THEN [value |-> Fraction(0, 1), logged |-> FALSE]
    ELSE FuncOrDefault(median_grouped(parse_votes(poll.results, 1, enum)))

(***************************************************************************)
(* The polls handed to the aggregator (specification SpecPolls).           *)
(***************************************************************************)
\* the largest vote count of one tally
MaxVotes == 1

\* the values of min_votes: always aggregate, an odd and an even threshold
MinVotes == {0, 1, 4}

\* the largest tally handed to filter_votes
MaxTally == 5

\* the values of min_votes when filter_votes is called: those, and one
\* whose half only the largest tally reaches
FloorVotes == MinVotes \cup {2 * MaxTally}

\* a numvotes attribute: missing, not a number, or a count
VoteStrings ==
    {PyNone, PyStr(<<NonDigit>>)} \cup {PyStr(str(n)) : n \in 1..MaxVotes}

\* a totalvotes attribute: missing, or the largest threshold
TotalVotesStrings == {PyNone, PyStr(str(4))}

\* a numplayers attribute: "2", "2+" (three players) or not a number
NumPlayersStrings == {PyStr(<<2>>), PyStr(<<2, Plus>>), PyStr(<<NonDigit>>)}

\* the <results> elements of a suggested_numplayers poll
PlayerResults ==
    {[numplayers |-> n, best |-> b, rec |-> r, notrec |-> x] :
         n \in NumPlayersStrings, b \in VoteStrings, r \in VoteStrings,
         x \in VoteStrings}

\* the largest vote count of one rank
MaxRankVotes == 3

\* the <result> elements of a ranked poll: a value "2", "3 and up" or
\* none, and a numvotes missing, not a number, or a count
RankResults ==
    {[value |-> v, numvotes |-> n] :
         v \in {PyStr(<<2>>), PyStr(<<3, NonDigit>>), PyNone},
         n \in {PyNone, PyStr(<<NonDigit>>)}
                \cup {PyStr(str(k)) : k \in 1..MaxRankVotes}}

\* a poll element over the results: absent, or with its totalvotes
Polls(results) ==
    {PyNone} \cup {[t |-> "poll", totalvotes |-> v, results |-> r] :
                       v \in TotalVotesStrings, r \in results}

\* a game declaring 2 to 5 players whose poll has the one player count 3
\* with 10 Best, 2 Recommended and 1 Not Recommended votes
TalliedGame ==
    [minplayers |-> PyStr(<<2>>), maxplayers |-> PyStr(<<5>>),
     poll |-> [t |-> "poll", totalvotes |-> PyStr(<<1, 3>>),
               results |-> <<[numplayers |-> PyStr(<<3>>),
                              best |-> PyStr(<<1, 0>>),
                              rec |-> PyStr(<<2>>),
                              notrec |-> PyStr(<<1>>)]>>]]

\* the games handed to player_count_votes: declared players 1 to 4, or
\* none declared, and a poll of up to two player counts; and the game above
PlayerGames ==
    {TalliedGame} \cup
    {[minplayers |-> d[1], maxplayers |-> d[2], poll |-> p] :
         d \in {<<PyStr(<<1>>), PyStr(<<4>>)>>, <<PyNone, PyStr(<<NonDigit>>)>>},
         p \in Polls({<<>>} \cup {<<a>> : a \in PlayerResults}
                     \cup {<<a, b>> : a, b \in PlayerResults})}

\* the polls handed to parse_poll: up to three ranks
RankPolls ==
    Polls({<<>>} \cup {<<a>> : a \in RankResults}
          \cup {<<a, b>> : a, b \in RankResults}
          \cup {<<a, b, c>> : a, b, c \in RankResults})

InitPolls ==
    /\ state = PyDict(EmptyDict)
    /\ Construct(FALSE, FALSE, FALSE)
    /\ started = FALSE
    /\ budget = 0
    /\ queue = {}
    /\ passed = {}
    /\ fetches = [i \in AllIds |-> 0]
    /\ last = [op |-> "__init__"]
    /\ epn = NoCall
    /\ applied = NoCall
    /\ \/ \E min_votes \in MinVotes :
           \/ \E game \in PlayerGames :
                  polled = [called |-> FALSE, fn |-> "player_count_votes",
                            min_votes |-> min_votes, game |-> game]
           \/ \E poll \in RankPolls, enum \in BOOLEAN :
                  polled = [called |-> FALSE, fn |-> "parse_poll",
                            min_votes |-> min_votes, poll |-> poll,
                            enum |-> enum]
       \/ \E min_votes \in FloorVotes, best \in BOOLEAN :
              \E votes_best \in 0..MaxTally, votes_rec \in 0..MaxTally,
                 votes_not \in 0..MaxTally :
                  polled = [called |-> FALSE, fn |-> "filter_votes",
                            min_votes |-> min_votes,
                            votes |-> <<votes_best, votes_rec, votes_not>>,
                            best |-> best]

PlayerCountVotes ==
    /\ ~polled.called
    /\ polled.fn = "player_count_votes"
    /\ polled' = [called |-> TRUE, fn |-> polled.fn,
                  min_votes |-> polled.min_votes, game |-> polled.game,
                  result |-> player_count_votes(polled.min_votes, polled.game)]
    /\ UNCHANGED <<spider, epn, applied>>

ParsePoll ==
    /\ ~polled.called
    /\ polled.fn = "parse_poll"
    /\ polled' = [called |-> TRUE, fn |-> polled.fn,
                  min_votes |-> polled.min_votes, poll |-> polled.poll,
                  enum |-> polled.enum,
                  result |-> parse_poll(polled.min_votes, polled.poll,
                                        polled.enum)]
    /\ UNCHANGED <<spider, epn, applied>>

FilterVotes ==
    /\ ~polled.called
    /\ polled.fn = "filter_votes"
    /\ polled' = [called |-> TRUE, fn |-> polled.fn,
                  min_votes |-> polled.min_votes, votes |-> polled.votes,
                  best |-> polled.best,
                  result |-> filter_votes(polled.min_votes, polled.votes[1],
                                          polled.votes[2], polled.votes[3],
                                          polled.best)]
    /\ UNCHANGED <<spider, epn, applied>>

NextPolls == PlayerCountVotes \/ ParsePoll \/ FilterVotes

SpecPolls == InitPolls /\ [][NextPolls]_vars

(***************************************************************************)
(* The identifier resolver of utils/ids.py.  A URL is the ParseResult of   *)
(* urlparse: the hostname as its labels (none: no hostname), the path as a *)
(* literal head followed by a tail of characters, and the query as its     *)
(* name=value pairs in order.                                              *)
(***************************************************************************)
\* the characters "Q", "g", "m", "." and "/"
LetterQ == 14

LetterG == 15

LetterM == 16

Dot == 17

Slash == 18

\* \w: a digit or a letter
IsWord(c) == c \in 0..9 \/ c \in {NonDigit, LetterQ, LetterG, LetterM}

\* bool(x) of None, an int or a string
bool(x) ==
    IF x.t = "int" THEN x.v # 0
    ELSE IF x.t = "str" THEN x.v # <<>>
    ELSE FALSE

\* unquote_plus(s): "+" is a space (the strings hold no %-escape)
unquote_plus(s) == [i \in 1..Len(s) |-> IF s[i] = Plus THEN Space ELSE s[i]]

RECURSIVE UpToSlash(_)
\* the match of [^/]* at the start of s
UpToSlash(s) ==
    IF s = <<>> \/ Head(s) = Slash THEN <<>>
    ELSE <<Head(s)>> \o UpToSlash(Tail(s))

\* a hostname given as a string, or as a compiled pattern
HostString(labels) == [string |-> labels]

HostPattern(name) == [pattern |-> name]

\* REGEX_DBPEDIA_DOMAIN = ^[a-z]{2}\.dbpedia\.org$ on the labels
REGEX_DBPEDIA_DOMAIN(hostname) ==
    /\ Len(hostname) = 3
    /\ hostname[1] \in {"de", "en", "fr"}
    /\ hostname[2] = "dbpedia"
    /\ hostname[3] = "org"

\* _match(string, comparison)
Match(hostname, comparison) ==
    IF "string" \in DOMAIN comparison THEN hostname = comparison.string
    ELSE REGEX_DBPEDIA_DOMAIN(hostname)

\* url.path is the empty string
PathEmpty(path) == path.head = "" /\ path.tail = <<>>

\* parse_url(url, hostnames): the url when it has a hostname, a path and a
\* hostname that matches, None otherwise
parse_url(url, hostnames) ==
    IF /\ url.t = "url"
       /\ url.hostname # <<>>
       /\ ~PathEmpty(url.path)
       /\ \E comparison \in hostnames : Match(url.hostname, comparison)
    THEN url
    ELSE PyNone

RECURSIVE extract_query_param(_, _)
\* extract_query_param(url, field) on the query of the url: the first value
\* of the field; parse_qs drops blank values and unquotes the others
extract_query_param(query, field) ==
    IF query = <<>> THEN PyNone
    ELSE IF Head(query).name = field /\ Head(query).value # <<>>
         THEN PyStr(unquote_plus(Head(query).value))
    ELSE extract_query_param(Tail(query), field)

\* REGEX_BGG_ID = ^/(board)?game/(\d+).*$
REGEX_BGG_ID(path) ==
    [matched |-> path.head \in {"/boardgame/", "/game/"}
                 /\ TakeDigits(path.tail) # <<>>,
     group2 |-> TakeDigits(path.tail)]

\* REGEX_WIKIDATA_ID = ^/(wiki|entity|resource)/Q(\d+).*$
REGEX_WIKIDATA_ID(path) ==
    [matched |-> /\ path.head \in {"/wiki/", "/entity/", "/resource/"}
                 /\ path.tail # <<>>
                 /\ Head(path.tail) = LetterQ
                 /\ TakeDigits(Tail(path.tail)) # <<>>,
     group2 |-> IF path.tail = <<>> THEN <<>> ELSE TakeDigits(Tail(path.tail))]

\* REGEX_DBPEDIA_ID = ^/(resource|page)/(.+)$
REGEX_DBPEDIA_ID(path) ==
    [matched |-> path.head \in {"/resource/", "/page/"} /\ path.tail # <<>>,
     group2 |-> path.tail]

\* REGEX_LUDING_ID = ^.*gameid/(\d+).*$ (the tails hold no "gameid/")
REGEX_LUDING_ID(path) ==
    [matched |-> path.head \in {"/gameid/", "/cgi-bin/GameData.py/ENgameid/"}
                 /\ TakeDigits(path.tail) # <<>>,
     group1 |-> TakeDigits(path.tail)]

\* REGEX_SPIELEN_ID =
\* ^/(alle-brettspiele|messeneuheiten|ausgezeichnet-\d+)/(\w[^/]*).*$
REGEX_SPIELEN_ID(path) ==
    [matched |-> /\ path.head \in {"/alle-brettspiele/", "/messeneuheiten/",
                                   "/ausgezeichnet-2010/"}
                 /\ path.tail # <<>>
                 /\ IsWord(Head(path.tail)),
     group2 |-> UpToSlash(path.tail)]

\* REGEX_FREEBASE_ID = ^/ns/(g|m)\.([^/]+).*$
REGEX_FREEBASE_ID(path) ==
    [matched |-> /\ path.head = "/ns/"
                 /\ Len(path.tail) >= 3
                 /\ path.tail[1] \in {LetterG, LetterM}
                 /\ path.tail[2] = Dot
                 /\ path.tail[3] # Slash,
     group1 |-> IF path.tail = <<>> THEN <<>> ELSE <<path.tail[1]>>,
     group2 |-> IF Len(path.tail) < 3 THEN <<>>
                ELSE UpToSlash(SubSeq(path.tail, 3, Len(path.tail)))]

\* lines 74-76 on the url parse_url returned
BggIdOf(url, match) ==
    LET bgg_id == IF match.matched THEN parse_int(PyStr(match.group2)) ELSE PyNone
    IN  IF bgg_id.t # "none" THEN bgg_id
        ELSE parse_int(extract_query_param(url.query, "id"))

\* extract_bgg_id(url)
extract_bgg_id(url) ==
    LET parsed == parse_url(url, {HostString(<<"boardgamegeek", "com">>),
                                  HostString(<<"www", "boardgamegeek", "com">>)})
    IN  IF parsed.t = "none" THEN PyNone
        ELSE BggIdOf(parsed, REGEX_BGG_ID(parsed.path))

\* extract_wikidata_id(url)
extract_wikidata_id(url) ==
    LET parsed == parse_url(url, {HostString(<<"wikidata", "org">>),
                                  HostString(<<"www", "wikidata", "org">>),
                                  HostString(<<"wikidata", "dbpedia", "org">>)})
    IN  IF parsed.t = "none" THEN PyNone
        ELSE IF REGEX_WIKIDATA_ID(parsed.path).matched
             THEN PyStr(<<LetterQ>> \o REGEX_WIKIDATA_ID(parsed.path).group2)
        ELSE extract_query_param(parsed.query, "id")

\* extract_wikipedia_id(url): url.path[6:] of a path that starts with
\* "/wiki/", None when it is empty
extract_wikipedia_id(url) ==
    LET parsed == parse_url(url, {HostString(<<"en", "wikipedia", "org">>),
                                  HostString(<<"en", "m", "wikipedia", "org">>)})
    IN  IF parsed.t # "none" /\ parsed.path.head = "/wiki/"
           /\ unquote_plus(parsed.path.tail) # <<>>
        THEN PyStr(unquote_plus(parsed.path.tail))
        ELSE PyNone

\* extract_dbpedia_id(url)
extract_dbpedia_id(url) ==
    LET parsed == parse_url(url, {HostString(<<"dbpedia", "org">>),
                                  HostString(<<"www", "dbpedia", "org">>),
                                  HostPattern("REGEX_DBPEDIA_DOMAIN")})
    IN  IF parsed.t = "none" THEN PyNone
        ELSE IF REGEX_DBPEDIA_ID(parsed.path).matched
             THEN PyStr(unquote_plus(REGEX_DBPEDIA_ID(parsed.path).group2))
        ELSE extract_query_param(parsed.query, "id")

\* extract_luding_id(url)
extract_luding_id(url) ==
    LET parsed == parse_url(url, {HostString(<<"luding", "org">>),
                                  HostString(<<"www", "luding", "org">>)})
    IN  IF parsed.t = "none" THEN PyNone
        ELSE IF REGEX_LUDING_ID(parsed.path).matched
             THEN parse_int(PyStr(REGEX_LUDING_ID(parsed.path).group1))
        ELSE parse_int(extract_query_param(parsed.query, "gameid"))

\* lines 141-144 returning the slug whatever it is
SpielenIdOf_KeepNumeric(url, spielen_id) == spielen_id

\* lines 141-144: the slug, or the id parameter when the slug is an int
SpielenIdOf(url, spielen_id) ==
    IF parse_int(spielen_id).t = "none" THEN spielen_id
    ELSE extract_query_param(url.query, "id")

\* extract_spielen_id(url)
extract_spielen_id(url) ==
    LET parsed == parse_url(url,
                      {HostString(<<"gesellschaftsspiele", "spielen", "de">>),
                       HostString(<<"www", "gesellschaftsspiele", "spielen", "de">>)})
    IN  IF parsed.t = "none" THEN PyNone
        ELSE SpielenIdOf(parsed,
                         IF REGEX_SPIELEN_ID(parsed.path).matched
                         THEN PyStr(unquote_plus(REGEX_SPIELEN_ID(parsed.path).group2))
                         ELSE PyNone)

\* extract_freebase_id(url)
extract_freebase_id(url) ==
    LET parsed == parse_url(url, {HostString(<<"rdf", "freebase", "com">>),
                                  HostString(<<"freebase", "com">>)})
    IN  IF parsed.t = "none" THEN PyNone
        ELSE IF REGEX_FREEBASE_ID(parsed.path).matched
             THEN PyStr(<<Slash>> \o REGEX_FREEBASE_ID(parsed.path).group1
                        \o <<Slash>> \o REGEX_FREEBASE_ID(parsed.path).group2)
        ELSE extract_query_param(parsed.query, "id")

\* the fields of the dict extract_ids returns
Namespaces ==
    {"bgg_id", "freebase_id", "wikidata_id", "wikipedia_id", "dbpedia_id",
     "luding_id", "spielen_id"}

\* the function extract_ids maps over the urls for the field
Extract(field, url) ==
    CASE field = "bgg_id" -> extract_bgg_id(url)
      [] field = "freebase_id" -> extract_freebase_id(url)
      [] field = "wikidata_id" -> extract_wikidata_id(url)
      [] field = "wikipedia_id" -> extract_wikipedia_id(url)
      [] field = "dbpedia_id" -> extract_dbpedia_id(url)
      [] field = "luding_id" -> extract_luding_id(url)
      [] field = "spielen_id" -> extract_spielen_id(url)

RECURSIVE clear_list(_)
\* clear_list(items): the items that are truthy, each once, in the order of
\* their first occurrence
clear_list(items) ==
    IF items = <<>> THEN <<>>
    ELSE LET rest == clear_list(SubSeq(items, 1, Len(items) - 1))
             item == items[Len(items)]
         IN  IF bool(item) /\ \A i \in 1..Len(rest) : rest[i] # item
             THEN Append(rest, item)
             ELSE rest

\* filter(None, urls): the urls that are not None (or empty)
SelectUrls(urls) == SelectSeq(urls, LAMBDA url : url.t = "url")

\* extract_ids(*urls)
extract_ids(urls) ==
    [field \in Namespaces |->
         clear_list([i \in 1..Len(SelectUrls(urls)) |->
                         Extract(field, SelectUrls(urls)[i])])]

(***************************************************************************)
(* The URLs handed to the resolver (specification SpecIds).                *)
(***************************************************************************)
\* hostnames: one or two allowed per namespace, a locale of dbpedia.org and
\* a longer label in its place, a foreign host, and no hostname
Hostnames ==
    {<<"boardgamegeek", "com">>, <<"www", "boardgamegeek", "com">>,
     <<"wikidata", "org">>, <<"wikidata", "dbpedia", "org">>,
     <<"en", "wikipedia", "org">>,
     <<"dbpedia", "org">>, <<"de", "dbpedia", "org">>, <<"deu", "dbpedia", "org">>,
     <<"luding", "org">>,
     <<"gesellschaftsspiele", "spielen", "de">>,
     <<"rdf", "freebase", "com">>,
     <<"example", "com">>,
     <<>>}

\* the heads of the paths: every literal of the path patterns, and "/w/"
Heads ==
    {"/boardgame/", "/game/", "/wiki/", "/entity/", "/resource/", "/page/",
     "/gameid/", "/alle-brettspiele/", "/ausgezeichnet-2010/", "/ns/", "/w/"}

\* the tails of the paths: "", "0", "13", "1x", "x", "x+x", "1+", "Q7", "Q",
\* "m.x", "m.", "x/1", "7/x"
Tails ==
    {<<>>, <<0>>, <<1, 3>>, <<1, NonDigit>>, <<NonDigit>>,
     <<NonDigit, Plus, NonDigit>>, <<1, Plus>>, <<LetterQ, 7>>, <<LetterQ>>,
     <<LetterM, Dot, NonDigit>>, <<LetterM, Dot>>, <<NonDigit, Slash, 1>>,
     <<7, Slash, NonDigit>>}

\* the paths: the empty path, and every head with every tail
Paths ==
    {[head |-> "", tail |-> <<>>]}
        \cup {[head |-> h, tail |-> t] : h \in Heads, t \in Tails}

\* one name=value pair of a query
Param(name, value) == [name |-> name, value |-> value]

\* the queries: none, id=5, id=x, id=5+, gameid=5, a blank id, a blank id
\* before id=5, id=x before id=5, gameid=x before id=5
Queries ==
    {<<>>,
     <<Param("id", <<5>>)>>,
     <<Param("id", <<NonDigit>>)>>,
     <<Param("id", <<5, Plus>>)>>,
     <<Param("gameid", <<5>>)>>,
     <<Param("id", <<>>)>>,
     <<Param("id", <<>>), Param("id", <<5>>)>>,
     <<Param("id", <<NonDigit>>), Param("id", <<5>>)>>,
     <<Param("gameid", <<NonDigit>>), Param("id", <<5>>)>>}

\* urlparse(url) of a string
Url(hostname, path, query) ==
    [t |-> "url", hostname |-> hostname, path |-> path, query |-> query]

\* the largest number of URLs handed to extract_ids
MaxUrls == 3

\* the URLs handed to extract_ids: games 13, 0, 5 and 13 again on BGG (by
\* path and by query), Q7 and "x" on Wikidata, a foreign host, and None
BatchUrls ==
    {PyNone,
     Url(<<"boardgamegeek", "com">>, [head |-> "/boardgame/", tail |-> <<1, 3>>], <<>>),
     Url(<<"www", "boardgamegeek", "com">>, [head |-> "/game/", tail |-> <<1, 3>>], <<>>),
     Url(<<"boardgamegeek", "com">>, [head |-> "/boardgame/", tail |-> <<0>>], <<>>),
     Url(<<"boardgamegeek", "com">>, [head |-> "/w/", tail |-> <<>>],
         <<Param("id", <<5>>)>>),
     Url(<<"wikidata", "org">>, [head |-> "/wiki/", tail |-> <<LetterQ, 7>>], <<>>),
     Url(<<"wikidata", "org">>, [head |-> "/w/", tail |-> <<>>],
         <<Param("id", <<NonDigit>>)>>),
     Url(<<"example", "com">>, [head |-> "/boardgame/", tail |-> <<1, 3>>], <<>>)}

\* the sequences of up to n of the URLs
UrlLists(n) == UNION {[1..k -> BatchUrls] : k \in 0..n}

InitIds ==
    /\ state = PyDict(EmptyDict)
    /\ Construct(FALSE, FALSE, FALSE)
    /\ started = FALSE
    /\ budget = 0
    /\ queue = {}
    /\ passed = {}
    /\ fetches = [i \in AllIds |-> 0]
    /\ last = [op |-> "__init__"]
    /\ epn = NoCall
    /\ polled = NoCall
    /\ \/ \E field \in Namespaces, hostname \in Hostnames, path \in Paths,
             query \in Queries :
              applied = [called |-> FALSE, fn |-> "extract_id", field |-> field,
                         url |-> Url(hostname, path, query)]
       \/ \E urls \in UrlLists(MaxUrls) :
              applied = [called |-> FALSE, fn |-> "extract_ids", urls |-> urls]

\* one of extract_bgg_id .. extract_freebase_id is called on the URL
ExtractId ==
    /\ ~applied.called
    /\ applied.fn = "extract_id"
    /\ applied' = [called |-> TRUE, fn |-> applied.fn, field |-> applied.field,
                   url |-> applied.url,
                   result |-> Extract(applied.field, applied.url)]
    /\ UNCHANGED <<spider, epn, polled>>

ExtractIds ==
    /\ ~applied.called
    /\ applied.fn = "extract_ids"
    /\ applied' = [called |-> TRUE, fn |-> applied.fn, urls |-> applied.urls,
                   result |-> extract_ids(applied.urls)]
    /\ UNCHANGED <<spider, epn, polled>>

NextIds == ExtractId \/ ExtractIds

SpecIds == InitIds /\ [][NextIds]_vars

(***************************************************************************)
(* The calls of api_url (specification SpecUrls).                          *)
(***************************************************************************)
\* the largest number of keyword arguments of a call
MaxParams == 3

\* the names passed: those of game_requests that differ by page, and id
ParamNames == {"id", "page", "pagesize", "stats", "type"}

\* the values passed: None or "1"
ParamValues == {PyNone, PyStr(<<1>>)}

\* the keyword arguments of a call: up to n pairs with distinct names, in
\* any order
KeywordLists(n) ==
    {kwargs \in UNION {[1..k -> [name : ParamNames, value : ParamValues]] :
                           k \in 0..n} :
         \A i, j \in 1..Len(kwargs) : kwargs[i].name = kwargs[j].name => i = j}

InitUrls ==
    /\ state = PyDict(EmptyDict)
    /\ Construct(FALSE, FALSE, FALSE)
    /\ started = FALSE
    /\ budget = 0
    /\ queue = {}
    /\ passed = {}
    /\ fetches = [i \in AllIds |-> 0]
    /\ last = [op |-> "__init__"]
    /\ epn = NoCall
    /\ polled = NoCall
    /\ \E action \in {"thing", "user"}, kwargs \in KeywordLists(MaxParams) :
           applied = [called |-> FALSE, fn |-> "api_url", action |-> action,
                      kwargs |-> kwargs]

ApiUrl ==
    /\ ~applied.called
    /\ applied.fn = "api_url"
    /\ applied' = [called |-> TRUE, fn |-> applied.fn, action |-> applied.action,
                   kwargs |-> applied.kwargs,
                   result |-> api_url(applied.action, applied.kwargs)]
    /\ UNCHANGED <<spider, epn, polled>>

NextUrls == ApiUrl

SpecUrls == InitUrls /\ [][NextUrls]_vars

(***************************************************************************)
(* The frontier (specification Spec).                                      *)
(***************************************************************************)
DiscoveryOps == {"game_requests_from_files", "_parse_sitemap", "parse_collection"}

\* the IDs of the first i has_seen_bgg_id calls of the last handler
PassedUpTo(i) == {last.returns[j].bgg_id : j \in 1..i}

\* C1: with spider state available, a has_seen_bgg_id call returns true
\* exactly when its ID was passed in an earlier call of the run; every call
\* leaves its ID in the frontier, no call removes one, and the frontier is
\* exactly the set of IDs passed so far.
C1_CheckAndMark ==
    state.t = "dict" =>
        /\ Frontier(state) = passed
        /\ last.op \in DiscoveryOps =>
               /\ last.before \subseteq Frontier(state)
               /\ \A i \in 1..Len(last.returns) :
                      /\ last.returns[i].bgg_id \in Frontier(state)
                      /\ last.returns[i].seen
                             <=> last.returns[i].bgg_id
                                     \in last.passed_before \cup PassedUpTo(i - 1)

\* C1 witness: one handler passed an ID passed before (true) and a new one
\* (false)
C1_Witness ==
    /\ state.t = "dict"
    /\ last.op \in DiscoveryOps
    /\ \E i, j \in 1..Len(last.returns) :
           /\ last.returns[i].seen
           /\ ~last.returns[j].seen

\* C2: with spider state available, under any interleaving of the discovery
\* paths, each ID is in the batch of at most one page-1 game request yielded
\* during the run.
C2_OneFetchPerId ==
    state.t = "dict" => \A i \in AllIds : fetches[i] <= 1

\* C2 witness: a collection response proposed an ID another path had
\* proposed before, and the ID is in the batch of one request
C2_Witness ==
    /\ state.t = "dict"
    /\ last.op = "parse_collection"
    /\ \E i \in 1..Len(last.returns) :
           /\ last.returns[i].seen
           /\ fetches[last.returns[i].bgg_id] = 1
    /\ \E i \in AllIds : i > game_request_batch_size /\ fetches[i] = 1

\* the IDs in the batches of the requests the last handler yielded
Requested == UNION {BatchOf(last.requests[k]) : k \in 1..Len(last.requests)}

\* C4: without spider state (no state attribute, or not a dict)
\* has_seen_bgg_id returns false for every ID, also one passed before, raises
\* nothing, records nothing and warns; game_requests still yields page-1
\* requests for all the IDs proposed.
C4_NoState ==
    state.t # "dict" =>
        /\ state \in InitialStates
        /\ Frontier(state) = {}
        /\ last.op \in DiscoveryOps =>
               /\ PassedUpTo(Len(last.returns)) = last.bgg_ids
               /\ \A i \in 1..Len(last.returns) : ~last.returns[i].seen
               /\ last.warnings = Len(last.returns)
               /\ ~last.raised
               /\ Requested = last.bgg_ids
               /\ \A k \in 1..Len(last.requests) :
                      last.requests[k].meta.page = PyInt(1)

\* C4 witness: an ID passed before is passed again, is reported unseen with
\* a warning, and is requested a second time
C4_Witness ==
    /\ state.t # "dict"
    /\ last.op \in DiscoveryOps
    /\ \E i \in 1..Len(last.returns) :
           /\ last.returns[i].bgg_id \in last.passed_before
           /\ ~last.returns[i].seen
           /\ fetches[last.returns[i].bgg_id] = 2
    /\ last.warnings > 0

(***************************************************************************)
(* The pagination of a batch (specification SpecChain).                    *)
(***************************************************************************)
\* the batch of the request the last response answers
LastBatch == last.request.meta.bgg_ids

\* the three conditions of a continuation hold for the last response
ConditionsHold ==
    /\ scrape_ratings
    /\ last.page < last.max_page
    /\ \E i \in 1..Len(last.body) : last.body[i].comment >= 1

\* C3: a continuation (game_requests called with page > 1) neither consults
\* nor modifies the frontier and yields a request for the batch given, even
\* when every ID of the batch is in the frontier.
C3_ContinuationSkipsFrontier ==
    (last.op = "parse_games" /\ last.continued /\ LastBatch # <<>>) =>
        /\ last.returns = <<>>
        /\ Frontier(state) = last.before
        /\ \E k \in 1..Len(last.requests) :
               last.requests[k].meta.bgg_ids = LastBatch

\* C5: parse_games yields no continuation request unless ratings are
\* scraped, the page resolved is below the max page resolved and the response
\* holds a comment; a page without comments ends the chain, with no request
\* for that page again.
C5_ContinueOnlyIf ==
    last.op = "parse_games" =>
        /\ last.requests # <<>> => ConditionsHold
        /\ ~ConditionsHold =>
               /\ last.calls = <<>>
               /\ last.requests = <<>>
               /\ ~last.raised

\* C5 witness: ratings are scraped and the page is below the max page, the
\* response holds no comment, and nothing is requested
C5_Witness ==
    /\ last.op = "parse_games"
    /\ scrape_ratings
    /\ last.page < last.max_page
    /\ \A i \in 1..Len(last.body) : last.body[i].comment = 0
    /\ LastBatch # <<>>
    /\ last.requests = <<>>
    /\ ~last.raised

\* C6: when the conditions hold for a response whose request carries a
\* non-empty batch, parse_games yields exactly one continuation request, for
\* the next page and the same batch.
C6_OneContinuation ==
    (last.op = "parse_games" /\ ConditionsHold /\ LastBatch # <<>>) =>
        /\ Len(last.requests) = 1
        /\ last.requests[1].meta.page = PyInt(last.page + 1)
        /\ last.requests[1].meta.bgg_ids = LastBatch
        /\ ~last.raised

\* C7: along the chain of a batch the max page resolved for a later page is
\* never below the one resolved for an earlier page: whatever the response
\* to the request parse_games builds for the next page declares, the max
\* page resolved for it is at least the max page resolved for this page.
C7_MaxPageNeverReduced ==
    last.op = "parse_games" =>
        \A k \in 1..Len(last.calls) :
          \A body \in CrawlBodies(last.calls[k].meta.page.v) :
            extract_page_number(last.calls[k].meta, body).max_page
                >= last.max_page

(***************************************************************************)
(* extract_page_number (specification SpecPages).                          *)
(***************************************************************************)
\* the value a digit string stands for, read digit by digit
NumberOf(s) ==
    IF Len(s) = 1 THEN s[1]
    ELSE IF Len(s) = 2 THEN 10 * s[1] + s[2]
    ELSE 100 * s[1] + 10 * s[2] + s[3]

\* the attribute of an item is a positive number
DeclaresNumber(item, attr) ==
    /\ attr \in DOMAIN item.attrs
    /\ \A i \in 1..Len(item.attrs[attr].v) : item.attrs[attr].v[i] # NonDigit
    /\ NumberOf(item.attrs[attr].v) > 0

\* the total-items values the response declares
TotalsDeclared ==
    {NumberOf(epn.body[i].attrs.totalitems.v) :
         i \in {i \in 1..Len(epn.body) : DeclaresNumber(epn.body[i], "totalitems")}}

\* the items of the response that declare a page number
PagesDeclaredAt ==
    {i \in 1..Len(epn.body) : DeclaresNumber(epn.body[i], "page")}

\* the max page the request context carries, 0 when it carries none
ContextMaxPage ==
    IF "max_page" \in DOMAIN epn.meta THEN epn.meta.max_page.v ELSE 0

\* the max page the response gives: the pages of its largest total, 0 when
\* it declares no total
ResponseMaxPage ==
    IF TotalsDeclared = {} THEN 0
    ELSE LET T == CHOOSE t \in TotalsDeclared : \A u \in TotalsDeclared : u <= t
         IN  CHOOSE n \in 1..((T \div request_page_size) + 1) :
                 /\ n * request_page_size >= T
                 /\ (n - 1) * request_page_size < T

\* C8: when the context and the response both give a max page and they
\* differ, the larger one is resolved; the result is never below the
\* context's max page.
C8_LargerMaxPageWins ==
    epn.called =>
        /\ (ContextMaxPage > 0 /\ ResponseMaxPage > 0) =>
               epn.result.max_page = Max(ContextMaxPage, ResponseMaxPage)
        /\ epn.result.max_page >= ContextMaxPage

\* C8 witness: the context carries 3, the response gives 5, 5 is resolved
C8_Witness ==
    /\ epn.called
    /\ ContextMaxPage = 3
    /\ ResponseMaxPage = 5
    /\ epn.result.max_page = 5

\* C9: the max page derived from a response is the ceiling of T over the
\* page size, T the largest total declared; with no positive total declared
\* and no max page in the context, the max page resolved is the page
\* resolved.
C9_MaxPageFromTotal ==
    epn.called =>
        /\ MaxPageFromResponse(epn.body)
               = (IF ResponseMaxPage > 0 THEN PyInt(ResponseMaxPage) ELSE PyNone)
        /\ (ContextMaxPage = 0 /\ ResponseMaxPage > 0) =>
               epn.result.max_page = ResponseMaxPage
        /\ (ContextMaxPage = 0 /\ ResponseMaxPage = 0) =>
               epn.result.max_page = epn.result.page

\* C9 witness: the totals 100 and 250 are declared, no max page is
\* carried, and 3 is resolved
C9_Witness ==
    /\ epn.called
    /\ ContextMaxPage = 0
    /\ TotalsDeclared = {100, 250}
    /\ epn.result.max_page = 3

\* C10: the page resolved is the page of the request context when it carries
\* one, also when the response declares another; else the first page number
\* the response declares; else 1.
C10_ContextPageWins ==
    epn.called =>
        IF "page" \in DOMAIN epn.meta
        THEN epn.result.page = epn.meta.page.v
        ELSE IF PagesDeclaredAt # {}
        THEN \E i \in PagesDeclaredAt :
                 /\ \A j \in PagesDeclaredAt : i <= j
                 /\ epn.result.page = NumberOf(epn.body[i].attrs.page.v)
        ELSE epn.result.page = 1

\* C10 witness: the context carries page 1, the response declares page 2,
\* page 1 is resolved
C10_Witness ==
    /\ epn.called
    /\ "page" \in DOMAIN epn.meta
    /\ epn.meta.page.v = 1
    /\ PagesDeclaredAt # {}
    /\ \A i \in PagesDeclaredAt : NumberOf(epn.body[i].attrs.page.v) = 2
    /\ epn.result.page = 1

(***************************************************************************)
(* parse_games on the response to any game request (specification          *)
(* SpecResponses).                                                         *)
(***************************************************************************)
\* the priority game_requests is called with for a page: 1 from the seed
\* files and -1 from a sitemap or a collection for page 1, -page for the page
\* after page - 1 (priority=-page - 1 of line 353 for page + 1)
PriorityOf(page) == IF page = 1 THEN {1, -1} ELSE {-page}

\* the batches of game requests: the non-empty sets of small IDs, sorted
Batches == {sorted(ids) : ids \in (SUBSET (1..MaxId)) \ {{}}}

\* the game requests for the pages 1..MaxPage as game_requests builds them
GameRequests ==
    {RequestCall(chunk, page, priority, EmptyDict) :
         chunk \in Batches,
         page \in 1..MaxPage,
         priority \in UNION {PriorityOf(q) : q \in 1..MaxPage}}

\* one game request is pending, for any page, with the priority of its page
InitResponses ==
    /\ state \in InitialStates
    /\ \E ratings, collections, users \in BOOLEAN :
           Construct(ratings, collections, users)
    /\ started = TRUE
    /\ budget = 0
    /\ \E request \in GameRequests :
           /\ request.priority \in PriorityOf(request.meta.page.v)
           /\ queue = {request}
    /\ passed = {}
    /\ fetches = [i \in AllIds |-> 0]
    /\ last = [op |-> "__init__"]
    /\ epn = NoCall
    /\ polled = NoCall
    /\ applied = NoCall

NextResponses == ParseGames

\* one game request is pending, for any page, in a run with a state dict
InitComments ==
    /\ InitResponses
    /\ state = PyDict(EmptyDict)

\* parse_games on a response whose comments may lack a user name
ParseComments ==
    \E request \in queue :
      \E body \in CommentBodies(request.meta.page.v) :
        \E r \in {parse_games(state, scrape_ratings, request.meta, body)} :
            Parsed(request, body, r)

NextComments == ParseComments

SpecComments == InitComments /\ [][NextComments]_vars

SpecResponses == InitResponses /\ [][NextResponses]_vars

\* the spider constructed with any three flags, the flags passed being kept
\* with the call, and one game request pending
InitFlags ==
    /\ state = PyDict(EmptyDict)
    /\ \E ratings, collections, users \in BOOLEAN :
           /\ Construct(ratings, collections, users)
           /\ applied = [called |-> TRUE, fn |-> "__init__",
                         scrape_ratings |-> ratings,
                         scrape_collections |-> collections,
                         scrape_users |-> users]
    /\ started = TRUE
    /\ budget = 0
    /\ \E request \in GameRequests :
           /\ request.priority \in PriorityOf(request.meta.page.v)
           /\ queue = {request}
    /\ passed = {}
    /\ fetches = [i \in AllIds |-> 0]
    /\ last = [op |-> "__init__"]
    /\ epn = NoCall
    /\ polled = NoCall

NextFlags == ParseGames

SpecFlags == InitFlags /\ [][NextFlags]_vars

\* the scheduler hands every pending request's response to its callback
SpecResponsesFair == SpecResponses /\ WF_vars(ParseGames)

\* C11: every continuation request parse_games builds has a priority
\* strictly below the priority of the request whose response it parses (and
\* is for the next page), so priorities strictly decrease along the chain of
\* a batch.
C11_PriorityDecreases ==
    last.op = "parse_games" =>
        \A k \in 1..Len(last.calls) :
            /\ last.calls[k].priority < last.request.priority
            /\ last.calls[k].meta.page.v = last.request.meta.page.v + 1
            /\ last.calls[k].priority \in PriorityOf(last.calls[k].meta.page.v)

\* C11 witness: the response to a page-2 request of priority -2 is continued
\* with a request of priority -3
C11_Witness ==
    /\ last.op = "parse_games"
    /\ last.request.meta.page = PyInt(2)
    /\ last.request.priority = -2
    /\ Len(last.calls) = 1
    /\ last.calls[1].priority = -3

\* the page-1 game requests pending
PendingFirstPages == {request \in queue : request.meta.page = PyInt(1)}

KindsYielded == {last.yields[i].kind : i \in 1..Len(last.yields)}

\* the board games of the response parsed that carry an id
GamesParsed ==
    {i \in 1..Len(last.body) :
         /\ last.body[i].type = "boardgame"
         /\ last.body[i].id # PyNone}

\* C13: parse_games yields a GameItem only from a response resolved to page
\* 1, one per board game with an id; from a response resolved to page >= 2
\* it yields no GameItem, only collection items or the requests derived from
\* the comments.
C13_GameItemOnFirstPage ==
    last.op = "parse_games" =>
        /\ "GameItem" \in KindsYielded => last.page = 1
        /\ last.page >= 2 =>
               KindsYielded \subseteq
                   {"CollectionItem", "collection_request", "user_request"}
        /\ (last.page = 1 /\ ~last.raised) =>
               Cardinality({i \in 1..Len(last.yields) :
                                last.yields[i].kind = "GameItem"})
                   = Cardinality(GamesParsed)

\* C13 witness: the response to a page-2 request with a board game and a
\* comment yields a collection item and no GameItem
C13_Witness ==
    /\ last.op = "parse_games"
    /\ last.page = 2
    /\ GamesParsed # {}
    /\ ~last.raised
    /\ KindsYielded = {"CollectionItem"}

\* the totals the <comments> elements of a response declare
BodyTotals(body) ==
    {DecimalValue(body[i].attrs.totalitems.v) :
         i \in {i \in 1..Len(body) : "totalitems" \in DOMAIN body[i].attrs}}

\* the bounds on the totals declared upstream
TotalBounds ==
    {((3 * request_page_size) \div 2) * k : k \in 0..MaxCrawlTotals}

\* the pages N entries fill: the least n with n * request_page_size >= N
PagesFor(N) ==
    CHOOSE n \in 0..((N \div request_page_size) + 1) :
        /\ n * request_page_size >= N
        /\ n = 0 \/ (n - 1) * request_page_size < N

\* the continuation of the response parsed asks for the next page, and there
\* is none from a page at or past the pages of a bound on the totals
ChainBounded ==
    last.op = "parse_games" =>
        /\ \A k \in 1..Len(last.calls) :
               last.calls[k].meta.page.v = last.page + 1
        /\ \A N \in TotalBounds :
               (/\ \A total \in BodyTotals(last.body) : total <= N
                /\ last.page >= PagesFor(N))
                   => (last.calls = <<>> /\ last.requests = <<>>)

\* C14: every batch reaches Done: the page asked for grows by one per
\* response, no continuation comes from a response whose page is at least
\* ceiling(N / page size) when the totals declared do not exceed N, and the
\* pending game requests run out.
C14_ChainFinite == []ChainBounded /\ <>[](queue = {})

\* C14 witness: a page-2 response declares 150 entries and holds a comment,
\* ratings are scraped, and the chain ends there
C14_Witness ==
    /\ last.op = "parse_games"
    /\ scrape_ratings
    /\ last.page = 2
    /\ BodyTotals(last.body) = {150}
    /\ \E i \in 1..Len(last.body) : last.body[i].comment >= 1
    /\ last.calls = <<>>
    /\ queue = {}

(***************************************************************************)
(* The poll aggregator (specification SpecPolls).                          *)
(***************************************************************************)
\* the number an attribute declares: 0 when it is missing or not a number
Declared(attr) ==
    IF attr.t = "str" /\ attr.v # <<>> /\ \A i \in 1..Len(attr.v) : attr.v[i] \in 0..9
    THEN NumberOf(attr.v)
    ELSE 0

\* player_count_votes has returned
PlayersCounted == polled.called /\ polled.fn = "player_count_votes"

\* the game has no player-count poll, or the poll's total is below min_votes
Insufficient(poll) ==
    poll.t = "none" \/ Declared(poll.totalvotes) < polled.min_votes

\* the declared players, twice
Fallback ==
    <<Declared(polled.game.minplayers), Declared(polled.game.maxplayers),
      Declared(polled.game.minplayers), Declared(polled.game.maxplayers)>>

\* C15: without a player-count poll, or with a poll whose total votes are
\* below min_votes, player_count_votes returns the declared (min, max, min,
\* max), whatever the votes of the player counts
C15_FallbackBelowThreshold ==
    (PlayersCounted /\ Insufficient(polled.game.poll))
        => polled.result.value = Fallback

\* a poll below min_votes whose only player count, 2, has one Best vote and
\* passes the floor of its own: the declared 1 and 4 are returned
C15_Witness ==
    /\ PlayersCounted
    /\ polled.min_votes = 1
    /\ polled.game.poll.t = "poll"
    /\ polled.game.poll.totalvotes = PyNone
    /\ polled.game.poll.results
           = <<[numplayers |-> PyStr(<<2>>), best |-> PyStr(<<1>>),
                rec |-> PyNone, notrec |-> PyNone]>>
    /\ polled.result.value = <<1, 4, 1, 4>>

\* filter_votes has returned for the classification Best (best) or
\* Recommended-or-better (not best)
Classified(best) ==
    polled.called /\ polled.fn = "filter_votes" /\ polled.best = best

\* the votes of the player count reach half of min_votes
FloorReached ==
    2 * (polled.votes[1] + polled.votes[2] + polled.votes[3]) >= polled.min_votes

\* C16: a player count is Recommended-or-better exactly when its best and
\* recommended votes together strictly exceed its not-recommended votes and
\* its own total is at least half of min_votes
C16_RecommendedIff ==
    Classified(FALSE) =>
        (polled.result <=> (/\ polled.votes[1] + polled.votes[2] > polled.votes[3]
                            /\ FloorReached))

\* four Best votes against none, below the floor of five: not classified
C16_Witness ==
    /\ Classified(FALSE)
    /\ polled.min_votes = 2 * MaxTally
    /\ polled.votes = <<MaxTally - 1, 0, 0>>
    /\ ~polled.result

\* C17: a player count is Best exactly when its best votes strictly exceed
\* its recommended and not-recommended votes together and its own total is
\* at least half of min_votes; on a tie it is neither Best nor Recommended
C17_BestIff ==
    /\ Classified(TRUE) =>
           (polled.result <=> (/\ polled.votes[1] > polled.votes[2] + polled.votes[3]
                               /\ FloorReached))
    /\ (Classified(TRUE) /\ polled.votes[1] = polled.votes[2] + polled.votes[3])
           => ~polled.result
    /\ (Classified(FALSE) /\ polled.votes[1] + polled.votes[2] = polled.votes[3])
           => ~polled.result

\* best = 5, recommended = 0, not recommended = 5 with no floor: not Best
C17_Witness ==
    /\ Classified(TRUE)
    /\ polled.min_votes = 0
    /\ polled.votes = <<5, 0, 5>>
    /\ ~polled.result

\* the player count a <results> element stands for: N for "N", N + 1 for
\* "N+", 0 when it stands for none
CategoryOf(result) ==
    LET n == result.numplayers
    IN  IF Declared(n) > 0 THEN Declared(n)
        ELSE IF n.t = "str" /\ Len(n.v) >= 2 /\ n.v[Len(n.v)] = Plus
                /\ Declared(PyStr(SubSeq(n.v, 1, Len(n.v) - 1))) > 0
             THEN Declared(PyStr(SubSeq(n.v, 1, Len(n.v) - 1))) + 1
        ELSE 0

\* the player counts of the poll whose votes classify them as Best (best)
\* or as Recommended-or-better (not best)
Passing(best) ==
    LET results == polled.game.poll.results
        Passes(r) ==
            LET b == Declared(r.best)
                c == Declared(r.rec)
                n == Declared(r.notrec)
            IN  /\ CategoryOf(r) > 0
                /\ 2 * (b + c + n) >= polled.min_votes
                /\ IF best THEN b > c + n ELSE b + c > n
    IN  {CategoryOf(results[i]) : i \in {i \in 1..Len(results) : Passes(results[i])}}

\* the smallest and the largest of the player counts, the declared pair
\* when there are none
PairOf(counts) ==
    IF counts = {}
    THEN <<Declared(polled.game.minplayers), Declared(polled.game.maxplayers)>>
    ELSE <<CHOOSE x \in counts : \A y \in counts : x <= y,
           CHOOSE x \in counts : \A y \in counts : x >= y>>

\* C18: when the poll's total reaches min_votes, the recommended pair is the
\* smallest and largest player count classified Recommended-or-better and
\* the best pair the smallest and largest classified Best; a pair without a
\* classified player count is the declared (min, max)
C18_SmallestAndLargest ==
    (PlayersCounted /\ ~Insufficient(polled.game.poll))
        => polled.result.value = PairOf(Passing(FALSE)) \o PairOf(Passing(TRUE))

\* the votes {3: (best 10, recommended 2, not recommended 1)} with
\* min_votes 0 give 3 four times
C18_Witness ==
    /\ PlayersCounted
    /\ polled.min_votes = 0
    /\ polled.game = TalliedGame
    /\ polled.result.value = <<3, 3, 3, 3>>

\* parse_poll has returned for a poll of ranks (enum) or of values
PollParsed(enum) ==
    polled.called /\ polled.fn = "parse_poll" /\ polled.enum = enum

\* the votes the i-th rank of the poll received
VotesOf(i) == Declared(polled.poll.results[i].numvotes)

\* the ranks of the poll that received votes
Voted == {i \in 1..Len(polled.poll.results) : VotesOf(i) > 0}

RECURSIVE VotesIn(_)
\* the votes the ranks received together
VotesIn(ranks) ==
    IF ranks = {} THEN 0
    ELSE LET i == CHOOSE i \in ranks : TRUE
         IN  VotesOf(i) + VotesIn(ranks \ {i})

\* m is the median of the grouped distribution: spreading the votes of each
\* rank x evenly over x - 1/2 .. x + 1/2, half of the votes lie below m
IsGroupedMedian(m) ==
    \E x \in Voted :
        /\ (2 * x - 1) * m.den <= 2 * m.num
        /\ 2 * m.num <= (2 * x + 1) * m.den
        /\ 2 * m.den * VotesIn({i \in Voted : i < x})
               + VotesOf(x) * (2 * m.num - (2 * x - 1) * m.den)
           = VotesIn(Voted) * m.den

\* C19: for a poll of ranks parse_poll returns the default 0.0 when the
\* poll is absent or its total is below min_votes (or no rank has a vote);
\* otherwise the median of the distribution in which each rank counts once
\* per vote, which lies between the lowest and highest rank with votes
C19_WeightedMedian ==
    PollParsed(TRUE) =>
        IF Insufficient(polled.poll) \/ Voted = {}
        THEN polled.result.value = Fraction(0, 1)
        ELSE /\ polled.result.value.den > 0
             /\ IsGroupedMedian(polled.result.value)
             /\ \A x \in Voted :
                    /\ (\A y \in Voted : x <= y)
                           => x * polled.result.value.den <= polled.result.value.num
                    /\ (\A y \in Voted : x >= y)
                           => polled.result.value.num <= x * polled.result.value.den

\* one vote for rank 1 and three for rank 2: the median is 11/6
C19_Witness ==
    /\ PollParsed(TRUE)
    /\ polled.min_votes = 4
    /\ polled.poll.t = "poll"
    /\ Len(polled.poll.results) = 2
    /\ VotesOf(1) = 1
    /\ VotesOf(2) = 3
    /\ polled.result.value = Fraction(11, 6)

\* a vote count as it is when it is a number, "0" when it is missing or not
\* a number
Zeroed(attr) ==
    IF attr.t = "str" /\ attr.v # <<>> /\ \A i \in 1..Len(attr.v) : attr.v[i] \in 0..9
    THEN attr
    ELSE PyStr(<<0>>)

\* the vote count is missing or not a number
Malformed(attr) == Zeroed(attr) # attr

\* the player-count poll with every missing or malformed vote count as "0"
ZeroedPlayerPoll(poll) ==
    IF poll.t = "none" THEN poll
    ELSE [t |-> "poll", totalvotes |-> poll.totalvotes,
          results |-> [i \in 1..Len(poll.results) |->
                           [numplayers |-> poll.results[i].numplayers,
                            best |-> Zeroed(poll.results[i].best),
                            rec |-> Zeroed(poll.results[i].rec),
                            notrec |-> Zeroed(poll.results[i].notrec)]]]

\* the poll of ranks with every missing or malformed vote count as "0"
ZeroedRankPoll(poll) ==
    IF poll.t = "none" THEN poll
    ELSE [t |-> "poll", totalvotes |-> poll.totalvotes,
          results |-> [i \in 1..Len(poll.results) |->
                           [value |-> poll.results[i].value,
                            numvotes |-> Zeroed(poll.results[i].numvotes)]]]

\* C20: a missing or non-integer vote count counts as 0 votes: both
\* player_count_votes and parse_poll return what they return for the poll
\* with "0" in its place, and they always return a summary: four numbers,
\* or a number (an error of the median is caught and gives the default)
C20_MalformedVotesAreZero ==
    /\ PlayersCounted =>
           /\ polled.result.value
                  = player_count_votes(
                        polled.min_votes,
                        [minplayers |-> polled.game.minplayers,
                         maxplayers |-> polled.game.maxplayers,
                         poll |-> ZeroedPlayerPoll(polled.game.poll)]).value
           /\ polled.result.value \in [1..4 -> Nat]
    /\ \A enum \in BOOLEAN :
           PollParsed(enum) =>
               /\ polled.result.value
                      = parse_poll(polled.min_votes,
                                   ZeroedRankPoll(polled.poll), enum).value
               /\ polled.result.value.num \in Nat
               /\ polled.result.value.den \in Nat \ {0}
               /\ polled.result.logged => polled.result.value = Fraction(0, 1)

\* one Best vote, a Recommended count that is not a number and no Not
\* Recommended count for 2 players: 2 is Best
C20_Witness ==
    /\ PlayersCounted
    /\ polled.game.poll.t = "poll"
    /\ ~Insufficient(polled.game.poll)
    /\ polled.game.poll.results
           = <<[numplayers |-> PyStr(<<2>>), best |-> PyStr(<<1>>),
                rec |-> PyStr(<<NonDigit>>), notrec |-> PyNone]>>
    /\ Malformed(polled.game.poll.results[1].rec)
    /\ polled.result.value = <<2, 2, 2, 2>>

(***************************************************************************)
(* The identifier resolver (specification SpecIds).                        *)
(***************************************************************************)
\* one of the seven extract functions has returned for the namespace
Resolved(field) ==
    applied.called /\ applied.fn = "extract_id" /\ applied.field = field

\* the hostname is one the namespace allows
OnAllowedHost(field, hostname) ==
    CASE field = "bgg_id" ->
             hostname \in {<<"boardgamegeek", "com">>,
                           <<"www", "boardgamegeek", "com">>}
      [] field = "wikidata_id" ->
             hostname \in {<<"wikidata", "org">>, <<"www", "wikidata", "org">>,
                           <<"wikidata", "dbpedia", "org">>}
      [] field = "wikipedia_id" ->
             hostname \in {<<"en", "wikipedia", "org">>,
                           <<"en", "m", "wikipedia", "org">>}
      [] field = "dbpedia_id" ->
             hostname \in {<<"dbpedia", "org">>, <<"www", "dbpedia", "org">>,
                           <<"de", "dbpedia", "org">>}
      [] field = "luding_id" ->
             hostname \in {<<"luding", "org">>, <<"www", "luding", "org">>}
      [] field = "spielen_id" ->
             hostname \in {<<"gesellschaftsspiele", "spielen", "de">>,
                           <<"www", "gesellschaftsspiele", "spielen", "de">>}
      [] field = "freebase_id" ->
             hostname \in {<<"rdf", "freebase", "com">>, <<"freebase", "com">>}

\* the path has the structure the namespace looks for
PathMatches(field, path) ==
    CASE field = "bgg_id" -> REGEX_BGG_ID(path).matched
      [] field = "wikidata_id" -> REGEX_WIKIDATA_ID(path).matched
      [] field = "wikipedia_id" -> path.head = "/wiki/"
      [] field = "dbpedia_id" -> REGEX_DBPEDIA_ID(path).matched
      [] field = "luding_id" -> REGEX_LUDING_ID(path).matched
      [] field = "spielen_id" -> REGEX_SPIELEN_ID(path).matched
      [] field = "freebase_id" -> REGEX_FREEBASE_ID(path).matched

\* the value of the query parameter the namespace falls back to ("gameid"
\* for Luding, "id" for the others), as a number for the numeric namespaces
QueryValue(field, query) ==
    CASE field = "luding_id" -> parse_int(extract_query_param(query, "gameid"))
      [] field = "bgg_id" -> parse_int(extract_query_param(query, "id"))
      [] OTHER -> extract_query_param(query, "id")

\* C21: on an allowed host, a URL whose path does not match the pattern of
\* the namespace resolves to the value of the namespace's query parameter
\* when it carries one, and to no identifier otherwise
C21_QueryFallback ==
    \A field \in Namespaces :
        (/\ Resolved(field)
         /\ OnAllowedHost(field, applied.url.hostname)
         /\ ~PathMatches(field, applied.url.path))
            => applied.result = QueryValue(field, applied.url.query)

\* the identifier the path of a URL yields for the namespace when it
\* matches: None when the value captured is empty or is rejected (a Spielen
\* slug that is a number)
PathValue(field, path) ==
    CASE field = "bgg_id" -> parse_int(PyStr(REGEX_BGG_ID(path).group2))
      [] field = "wikidata_id" ->
             PyStr(<<LetterQ>> \o REGEX_WIKIDATA_ID(path).group2)
      [] field = "wikipedia_id" ->
             IF path.tail = <<>> THEN PyNone ELSE PyStr(unquote_plus(path.tail))
      [] field = "dbpedia_id" -> PyStr(unquote_plus(path.tail))
      [] field = "luding_id" -> parse_int(PyStr(REGEX_LUDING_ID(path).group1))
      [] field = "spielen_id" ->
             IF parse_int(PyStr(unquote_plus(UpToSlash(path.tail)))).t = "int"
             THEN PyNone
             ELSE PyStr(unquote_plus(UpToSlash(path.tail)))
      [] field = "freebase_id" ->
             PyStr(<<Slash, path.tail[1], Slash>>
                   \o UpToSlash(SubSeq(path.tail, 3, Len(path.tail))))

\* C22: on an allowed host, a URL whose path matches resolves to the value
\* of the path whatever the query carries; when the value captured is empty
\* or unparseable it resolves to the value of the query parameter
C22_PathBeforeQuery ==
    \A field \in Namespaces :
        (/\ Resolved(field)
         /\ OnAllowedHost(field, applied.url.hostname)
         /\ PathMatches(field, applied.url.path))
            => applied.result
                   = IF PathValue(field, applied.url.path).t # "none"
                     THEN PathValue(field, applied.url.path)
                     ELSE QueryValue(field, applied.url.query)

\* the slug of a Spielen path: its second segment, decoded
Slug == unquote_plus(UpToSlash(applied.url.path.tail))

\* the string reads as an integer: digits, with white space around them
\* at most
Numeric(string) ==
    \E i, j \in 1..Len(string) :
        /\ i <= j
        /\ \A k \in 1..Len(string) :
               IF i <= k /\ k <= j THEN string[k] \in 0..9 ELSE string[k] = Space

\* the first value that is not blank of the id parameter, None without one
IdValue(query) ==
    LET carried == {i \in 1..Len(query) :
                        query[i].name = "id" /\ query[i].value # <<>>}
    IN  IF carried = {} THEN PyNone
        ELSE PyStr(unquote_plus(
                 query[CHOOSE i \in carried : \A j \in carried : i <= j].value))

\* C23: a Spielen slug that reads as an integer is never the identifier:
\* the value of the id parameter is (None without one); any other slug is
\* the identifier
C23_NumericSlugRejected ==
    (/\ Resolved("spielen_id")
     /\ OnAllowedHost("spielen_id", applied.url.hostname)
     /\ PathMatches("spielen_id", applied.url.path))
        => IF Numeric(Slug)
           THEN applied.result = IdValue(applied.url.query)
                /\ applied.result # PyStr(Slug)
           ELSE applied.result = PyStr(Slug)

\* /alle-brettspiele/13 with the query id=x&id=5 resolves to "x"
C23_Witness ==
    /\ Resolved("spielen_id")
    /\ applied.url.hostname = <<"gesellschaftsspiele", "spielen", "de">>
    /\ applied.url.path = [head |-> "/alle-brettspiele/", tail |-> <<1, 3>>]
    /\ applied.url.query = <<Param("id", <<NonDigit>>), Param("id", <<5>>)>>
    /\ applied.result = PyStr(<<NonDigit>>)

\* extract_ids has returned
BatchResolved == applied.called /\ applied.fn = "extract_ids"

\* the identifiers the URLs of the batch resolve to in the namespace, in
\* the order of the URLs
ResolvedFrom(field) ==
    LET urls == SelectSeq(applied.urls, LAMBDA url : url # PyNone)
    IN  SelectSeq([i \in 1..Len(urls) |-> Extract(field, urls[i])],
                  LAMBDA id : id # PyNone)

RECURSIVE FirstSeen(_)
\* the values of the sequence, each once, in the order of first occurrence
FirstSeen(values) ==
    IF values = <<>> THEN <<>>
    ELSE LET before == FirstSeen(SubSeq(values, 1, Len(values) - 1))
             value == values[Len(values)]
         IN  IF \E i \in 1..Len(before) : before[i] = value THEN before
             ELSE Append(before, value)

\* C24: per namespace, extract_ids returns the distinct identifiers the
\* URLs resolve to, each once, in the order of the first URL that yielded
\* it; de-duplicating the list again changes nothing
C24_FirstSeenUnique ==
    BatchResolved =>
        \A field \in Namespaces :
            /\ applied.result[field] = FirstSeen(ResolvedFrom(field))
            /\ FirstSeen(applied.result[field]) = applied.result[field]

(***************************************************************************)
(* The comments of a response (specification SpecComments).                *)
(***************************************************************************)
RECURSIVE NamedUsers(_)
\* the user names of the <comment> elements of the response that have one,
\* in document order
NamedUsers(body) ==
    IF body = <<>> THEN <<>>
    ELSE SelectSeq(Head(body).users,
                   LAMBDA name : name \notin {PyNone, PyStr(<<>>)})
         \o NamedUsers(Tail(body))

\* the user names of what parse_games yielded of the kind, in order
UsersYielded(kind) ==
    LET of_kind == SelectSeq(last.yields, LAMBDA y : y.kind = kind)
    IN  [i \in 1..Len(of_kind) |-> of_kind[i].user_name]

UrlBuilt == applied.called /\ applied.fn = "api_url"

\* the (name, value) pairs passed whose value is not None
Passed(kwargs) == {kwargs[i] : i \in {i \in 1..Len(kwargs) : kwargs[i].value # PyNone}}

\* the keyword arguments in another order
Reordered(kwargs) ==
    {other \in [1..Len(kwargs) -> {kwargs[i] : i \in 1..Len(kwargs)}] :
         \A i \in 1..Len(kwargs) : \E j \in 1..Len(kwargs) : other[j] = kwargs[i]}

\* C26: the URL holds the parameters passed with a value, each once, in
\* ascending order of their names, and none whose value is None, whatever
\* the order they were passed in: the same parameters passed in another
\* order give the same URL
C26_SortedParameters ==
    UrlBuilt =>
        LET query == applied.result.query
        IN  /\ {query[i] : i \in 1..Len(query)} = Passed(applied.kwargs)
            /\ \A i, j \in 1..Len(query) :
                   i < j => KeyLess(query[i].name, query[j].name)
            /\ \A other \in Reordered(applied.kwargs) :
                   api_url(applied.action, other) = applied.result

\* type="1", stats=None, id="1" passed in this order: the URL reads
\* id=1&type=1
C26_Witness ==
    /\ UrlBuilt
    /\ applied.kwargs = <<Keyword("type", PyStr(<<1>>)), Keyword("stats", PyNone),
                          Keyword("id", PyStr(<<1>>))>>
    /\ applied.result.query = <<Keyword("id", PyStr(<<1>>)),
                                Keyword("type", PyStr(<<1>>))>>

(***************************************************************************)
(* The context of a continuation request (specification SpecChain).        *)
(***************************************************************************)
\* C27: the meta of every request parse_games builds for the next page
\* holds the batch of the response, the page after the page resolved, and
\* the max page resolved under "max_page", the key extract_page_number
\* reads.
C27_ContextCarriesMaxPage ==
    last.op = "parse_games" =>
        \A k \in 1..Len(last.calls) :
            /\ last.calls[k].meta.bgg_ids = LastBatch
            /\ last.calls[k].meta.page = PyInt(last.page + 1)
            /\ "max_page" \in DOMAIN last.calls[k].meta
            /\ last.calls[k].meta.max_page = PyInt(last.max_page)

(***************************************************************************)
(* The batches of a page-1 call (specification Spec).                      *)
(***************************************************************************)
\* the IDs the last handler proposed that were not in the frontier
Remaining == last.bgg_ids \ last.before

RECURSIVE Concatenated(_)
\* the batches of the requests, one after the other
Concatenated(requests) ==
    IF requests = <<>> THEN <<>>
    ELSE Head(requests).meta.bgg_ids \o Concatenated(Tail(requests))

\* C28: the batches of the requests a page-1 call of game_requests yields
\* hold at most game_request_batch_size IDs each and, one after the other,
\* are the proposed IDs that were not in the frontier, each once, in
\* ascending order; nothing is yielded when no such ID remains.
C28_BatchesPartitionUnseen ==
    last.op \in DiscoveryOps =>
        /\ ~last.raised
        /\ \A k \in 1..Len(last.requests) :
               /\ last.requests[k].meta.page = PyInt(1)
               /\ Len(last.requests[k].meta.bgg_ids) \in 1..game_request_batch_size
        /\ Concatenated(last.requests) = sorted(Remaining)
        /\ Remaining = {} => last.requests = <<>>

\* C28 witness: of the IDs proposed one was in the frontier, and the others
\* are more than one batch: a request for the first game_request_batch_size
\* of them and one for the rest
C28_Witness ==
    /\ state.t = "dict"
    /\ last.op \in DiscoveryOps
    /\ last.bgg_ids \cap last.before # {}
    /\ Len(last.requests) = 2
    /\ Len(last.requests[1].meta.bgg_ids) = game_request_batch_size
    /\ Len(last.requests[2].meta.bgg_ids) = 1

(***************************************************************************)
(* The flags of the run (specification SpecFlags).                         *)
(***************************************************************************)
\* the spider was constructed with the flags kept in applied
Constructed == applied.called /\ applied.fn = "__init__"

\* C29: whatever flags were passed in, after construction collections and
\* users are scraped only if ratings are, and ratings are scraped exactly
\* when asked for; with ratings off parse_games builds and yields no
\* request for a next page, and yields no collection item, no collection
\* request and no user request.
C29_RatingsGateTheRest ==
    Constructed =>
        /\ scrape_ratings = applied.scrape_ratings
        /\ scrape_collections => scrape_ratings
        /\ scrape_users => scrape_ratings
        /\ (last.op = "parse_games" /\ ~scrape_ratings) =>
               /\ last.calls = <<>>
               /\ last.requests = <<>>
               /\ ~last.raised
               /\ \A i \in 1..Len(last.yields) : last.yields[i].kind = "GameItem"

\* C29 witness: collections and users were asked for without ratings, the
\* page-1 response holds a game with a comment and more pages of them, and
\* parse_games yields the game and nothing else
C29_Witness ==
    /\ Constructed
    /\ ~applied.scrape_ratings
    /\ applied.scrape_collections
    /\ applied.scrape_users
    /\ last.op = "parse_games"
    /\ last.page < last.max_page
    /\ \E i \in 1..Len(last.body) : last.body[i].comment > 0
    /\ Len(last.yields) = 1
    /\ last.calls = <<>>

(***************************************************************************)
(* Best within Recommended (specification SpecPolls).                      *)
(***************************************************************************)
\* C30: votes that filter_votes classifies Best it also classifies
\* Recommended-or-better, under the same threshold; and when
\* player_count_votes found a Best player count, the pair of the Best
\* player counts lies within the pair of the Recommended ones
C30_BestWithinRecommended ==
    /\ (Classified(TRUE) /\ polled.result)
           => filter_votes(polled.min_votes, polled.votes[1], polled.votes[2],
                           polled.votes[3], FALSE)
    /\ (PlayersCounted /\ polled.result.best # <<>>)
           => /\ \A i \in 1..Len(polled.result.best) :
                     \E j \in 1..Len(polled.result.recommended) :
                         polled.result.recommended[j] = polled.result.best[i]
              /\ polled.result.value[1] <= polled.result.value[3]
              /\ polled.result.value[3] <= polled.result.value[4]
              /\ polled.result.value[4] <= polled.result.value[2]

\* two players are Recommended by one vote and three ("2+") Best by one
\* vote, under the threshold of one vote: the pairs (2, 3) and (3, 3)
C30_Witness ==
    /\ PlayersCounted
    /\ polled.min_votes = 1
    /\ polled.result.recommended = <<2, 3>>
    /\ polled.result.best = <<3>>
    /\ polled.result.value = <<2, 3, 3, 3>>

====
